---- MODULE Spec2Model ----
(***************************************************************************)
(* KeloPay: the Alchemy webhook ingestion pipeline.                        *)
(*   POST /api/webhooks/alchemy  (app/api/webhooks/alchemy/route.ts)       *)
(*   parseAlchemyWebhook, processTransaction, determineTransactionType     *)
(*   (lib/blockchain/processor), handleApiError (lib/api/utils.ts).        *)
(* Every delivery is one invocation of the async POST handler.  Its        *)
(* synchronous code runs to the next await in one step; the awaited store  *)
(* operations of concurrent deliveries interleave freely.                  *)
(***************************************************************************)
EXTENDS Integers, Sequences, FiniteSets, TLC

\* ------------------------------------------------------------------------
\* Bounds of the model
\* ------------------------------------------------------------------------
MaxHash == 2            \* transaction hashes are 1..MaxHash
MaxValue == 1           \* tx.value is a decimal string of 0..MaxValue

\* two webhook deliveries, numbered in order of arrival; they may overlap
\* or follow one another
Deliveries == {1, 2}
Hashes == 1..MaxHash

\* ------------------------------------------------------------------------
\* Strings that the code lower-cases: sequences of characters
\* ------------------------------------------------------------------------
LowerChar(c) ==
    CASE c = "A" -> "a"
      [] c = "B" -> "b"
      [] c = "C" -> "c"
      [] c = "D" -> "d"
      [] OTHER -> c

\* String.prototype.toLowerCase
ToLowerCase(s) == [i \in DOMAIN s |-> LowerChar(s[i])]

\* sender addresses seen in envelopes: two spellings of one wallet and
\* another wallet
Addresses == { <<"A", "b">>, <<"a", "b">>, <<"c", "d">> }

\* ------------------------------------------------------------------------
\* Request bodies.  A body is the raw text; JsonParse gives the payload.
\* ------------------------------------------------------------------------
NoValue == "undefined"

\* chain ids an activity entry may name: '1' is in NETWORK_CONFIG, '999' is
\* not
ChainIds == {"1", "999"}

ProviderStatuses == {"0x1", "0x0"}

\* event.activity[0] of an envelope: every combination of fields on a known
\* chain, and for the unknown chain one entry per hash
Activities ==
    [hash : Hashes, chainId : {"1"}, fromAddress : Addresses,
     value : 0..MaxValue, status : ProviderStatuses]
    \cup [hash : Hashes, chainId : ChainIds \ {"1"}, fromAddress : {<<"c", "d">>},
          value : {0}, status : {"0x1"}]

NoActivity ==
    [hash |-> 0, chainId |-> NoValue, fromAddress |-> <<>>,
     value |-> 0, status |-> NoValue]

\* shape of the text: not JSON at all, the JSON literal null, an object
\* with no event, an event whose activity list is empty, a full envelope
Bodies ==
    { [shape |-> s, activity |-> NoActivity] :
          s \in {"notJson", "null", "noEvent", "emptyActivity"} }
    \cup { [shape |-> "activity", activity |-> a] : a \in Activities }

\* JSON.parse(body): the payload, or the SyntaxError it throws
SyntaxError == [name |-> "SyntaxError", message |-> "Unexpected token in JSON"]
TypeError == [name |-> "TypeError", message |-> "Cannot read properties of null"]
NoError == [name |-> "", message |-> ""]

JsonParseThrows(body) == body.shape = "notJson"

\* ------------------------------------------------------------------------
\* Signature verification (route.ts, verifyWebhookSignature)
\* ------------------------------------------------------------------------
NoKey == ""
AlchemyKey == "whsec_alchemy"
ForgedKey == "whsec_forged"

\* a digest that depends on the key alone
HmacDigestOfKey(key, body) ==
    [len |-> 64, key |-> key, body |-> [shape |-> "", activity |-> NoActivity]]

\* hmac.digest('hex') of a SHA-256 HMAC: 64 hex characters that depend on
\* the key and on the raw body
HmacDigest(key, body) == [len |-> 64, key |-> key, body |-> body]

\* request.headers.get('x-alchemy-signature') when the header is absent
NoSignature == [len |-> 0, key |-> NoKey, body |-> [shape |-> "", activity |-> NoActivity]]

\* a header value that is not 64 characters long
ShortSignature == [len |-> 8, key |-> NoKey, body |-> [shape |-> "", activity |-> NoActivity]]

\* header values a sender may attach to a body
Signatures(body) ==
    { NoSignature, ShortSignature,
      HmacDigest(AlchemyKey, body), HmacDigest(ForgedKey, body) }

\* crypto.timingSafeEqual throws a RangeError on unequal lengths
TimingSafeEqualThrows(a, b) == a.len # b.len

TimingSafeEqual(a, b) == a = b

\* lines 83-90, the body of the try block: hashing throws when the crypto
\* library fails, the comparison throws on unequal lengths
HmacCompare(body, signature, signingKey, cryptoFails) ==
    IF cryptoFails THEN "throws"
    ELSE IF TimingSafeEqualThrows(signature, HmacDigest(signingKey, body))
         THEN "throws"
    ELSE IF TimingSafeEqual(signature, HmacDigest(signingKey, body))
         THEN "true" ELSE "false"

\* verification with the try block unguarded
VerifyOutcomeNoCatch(body, signature, signingKey, cryptoFails) ==
    IF signingKey = NoKey THEN "true"
    ELSE IF signature.len = 0 THEN "false"
    ELSE HmacCompare(body, signature, signingKey, cryptoFails)

\* verification that refuses every request while no key is configured
VerifyOutcomeFailClosed(body, signature, signingKey, cryptoFails) ==
    IF signingKey = NoKey THEN "false"
    ELSE IF signature.len = 0 THEN "false"
    ELSE IF HmacCompare(body, signature, signingKey, cryptoFails) = "throws"
         THEN "false"
    ELSE HmacCompare(body, signature, signingKey, cryptoFails)

\* how a call of verifyWebhookSignature ends: "true", "false", or "throws"
\* if an error left the function
VerifyOutcome(body, signature, signingKey, cryptoFails) ==
    IF signingKey = NoKey THEN "true"
    ELSE IF signature.len = 0 THEN "false"
    ELSE IF HmacCompare(body, signature, signingKey, cryptoFails) = "throws"
         THEN "false"
    ELSE HmacCompare(body, signature, signingKey, cryptoFails)

\* the value POST sees, with a working crypto library
verifyWebhookSignature(body, signature, signingKey) ==
    VerifyOutcome(body, signature, signingKey, FALSE) = "true"

\* ------------------------------------------------------------------------
\* Payload parsing (processor, parseAlchemyWebhook; indexer, NETWORK_CONFIG)
\* ------------------------------------------------------------------------
ParseInt(s) ==
    CASE s = "1" -> 1
      [] s = "999" -> 999
      [] OTHER -> 0

\* NETWORK_CONFIG's chain ids
KnownChainIds == {1, 11155111, 8453, 84532, 42161, 421614}

getNetworkFromChainIdThrows(chainId) == chainId \notin KnownChainIds

getNetworkFromChainId(chainId) ==
    CASE chainId = 1 -> "ethereum"
      [] chainId = 11155111 -> "sepolia"
      [] chainId = 8453 -> "base"
      [] chainId = 84532 -> "base-sepolia"
      [] chainId = 42161 -> "arbitrum"
      [] chainId = 421614 -> "arbitrum-sepolia"
      [] OTHER -> ""

\* tx.chainId || '1'
ChainIdOrDefault(tx) == IF tx.chainId = NoValue THEN "1" ELSE tx.chainId

\* Decimal strings are sequences of digits.  BigInt(s) is the integer a
\* decimal string denotes (the empty string denotes 0), toString its inverse.
RECURSIVE BigInt(_)
BigInt(s) ==
    IF s = << >> THEN 0 ELSE 10 * BigInt(SubSeq(s, 1, Len(s) - 1)) + s[Len(s)]

RECURSIVE BigIntToString(_)
BigIntToString(n) ==
    IF n < 10 THEN <<n>> ELSE BigIntToString(n \div 10) \o <<n % 10>>

\* tx.value || '0': a field the entry lacks, and the number 0, give 0
ValueOrZero(tx) == IF "value" \in DOMAIN tx THEN tx.value ELSE 0

\* tx.gasUsed || '0', tx.gasPrice || '0': a field the entry lacks, and the
\* empty string, give '0'
DigitsOrZero(tx, field) ==
    IF field \in DOMAIN tx /\ tx[field] # << >> THEN tx[field] ELSE <<0>>

NoInput ==
    [txHash |-> 0, network |-> "", chainId |-> 0, fromAddress |-> <<>>,
     value |-> 0, gasUsed |-> << >>, gasPrice |-> << >>, status |-> ""]

\* the ProcessTransactionInput, or NoInput for the code's null
parseAlchemyWebhook(body) ==
    IF body.shape # "activity" THEN NoInput
    ELSE IF getNetworkFromChainIdThrows(ParseInt(ChainIdOrDefault(body.activity)))
         THEN NoInput
    ELSE [txHash |-> body.activity.hash,
          network |-> getNetworkFromChainId(ParseInt(ChainIdOrDefault(body.activity))),
          chainId |-> ParseInt(ChainIdOrDefault(body.activity)),
          fromAddress |-> body.activity.fromAddress,
          value |-> ValueOrZero(body.activity),
          gasUsed |-> DigitsOrZero(body.activity, "gasUsed"),
          gasPrice |-> DigitsOrZero(body.activity, "gasPrice"),
          status |-> IF body.activity.status = "0x1" THEN "success" ELSE "failed"]

\* ------------------------------------------------------------------------
\* Classification (processor, determineTransactionType and lines 172-174)
\* ------------------------------------------------------------------------
\* a classification that takes a zero value for a transfer
determineTransactionTypeFromZero(input) ==
    IF input.value >= 0 THEN "TRANSFER" ELSE "CONVERSION"

determineTransactionType(input) ==
    IF input.value > 0 THEN "TRANSFER" ELSE "CONVERSION"

transactionStatus(input) ==
    IF input.status = "success" THEN "COMPLETED" ELSE "FAILED"

\* a fee computed in floating point: the product's low digits are lost
gasFeeWeiRounded(input) ==
    BigIntToString(((BigInt(input.gasUsed) * BigInt(input.gasPrice)) \div 1000) * 1000)

\* processor, line 177
gasFeeWei(input) ==
    BigIntToString(BigInt(input.gasUsed) * BigInt(input.gasPrice))

\* ------------------------------------------------------------------------
\* Responses (lib/api/utils.ts)
\* ------------------------------------------------------------------------
NoResponse == [status |-> 0, error |-> "", txHash |-> 0, transactionId |-> 0]

successResponse(txHash, transactionId) ==
    [status |-> 200, error |-> "", txHash |-> txHash, transactionId |-> transactionId]

errorResponse(message, status) ==
    [status |-> status, error |-> message, txHash |-> 0, transactionId |-> 0]

\* a thrown value is [name, message]; a value that is not an Error has no name
handleApiError(error) ==
    IF error.name = "ZodError" THEN errorResponse("Validation failed", 400)
    ELSE IF error.name = "PrismaClientKnownRequestError"
         THEN errorResponse("Database error", 500)
    ELSE IF error.name # "" THEN errorResponse(error.message, 500)
    ELSE errorResponse("An unexpected error occurred", 500)

\* ------------------------------------------------------------------------
\* The store (Prisma): users and transactions, ids are row numbers.
\* prisma.transaction.findUnique({where: {txHash}}) and
\* prisma.user.findUnique({where: {walletAddress}}) are queries on unique
\* columns: a create that repeats the key fails with error P2002, a
\* PrismaClientKnownRequestError.
\* ------------------------------------------------------------------------
UniqueConstraintError(field) ==
    [name |-> "PrismaClientKnownRequestError",
     message |-> IF field = "txHash"
                 THEN "Unique constraint failed on the fields: (txHash)"
                 ELSE "Unique constraint failed on the fields: (walletAddress)"]

\* errors of a store that is down or misbehaving
PersistenceErrors ==
    { [name |-> "PrismaClientKnownRequestError", message |-> "Timed out fetching a connection"],
      [name |-> "PrismaClientInitializationError", message |-> "Can't reach database server"] }

VARIABLES
    secret,         \* process.env.ALCHEMY_WEBHOOK_SECRET (NoKey: not set)
    users,          \* sequence of user rows, id = index
    transactions,   \* sequence of transaction rows, id = index
    pc,             \* where each delivery's handler stands
    req,            \* the raw body of each delivery's request
    signed,         \* whether its signature header was Alchemy's MAC of the body
    input,          \* processTransaction's input
    user,           \* processTransaction's local 'user' (id, 0 for null)
    resp,           \* the HTTP response of each delivery
    thrown,         \* the error that reached POST's catch block (NoError if none)
    failedAt,       \* the function that threw it ("" if none)
    doneBefore      \* deliveries that had been answered when this one arrived

vars ==
    <<secret, users, transactions, pc, req, signed, input, user, resp, thrown,
      failedAt, doneBefore>>

NoRequest == [shape |-> "", activity |-> NoActivity]

\* State of the other parts of the repository, each modelled further down
\* with a specification of its own; the webhook pipeline never touches it.
VARIABLES
    ingest,         \* one activity entry and the row ingested from it
    verify,         \* one call of verifyWebhookSignature and its outcome
    roleHook,       \* useRoleAccess: the connected address and the derived role
    api             \* POST /api/user: the requests in flight

\* State of the KeloPay contract (contracts/KeloPay.sol)
VARIABLES
    platformFeeBasisPoints,
    paused,             \* Pausable
    depositCounter,
    escrowCounter,
    deposits,           \* the DepositInfo records, by deposit id from 0
    escrows,            \* escrow id -> EscrowInfo; an unwritten slot is all zero
    supportedTokens,    \* the tokens whose flag is set
    ethBalance,         \* address(this).balance
    tokenBalance,       \* the contract's balance of the ERC20 token
    blockTimestamp,
    paidOut             \* escrow id -> the payments release and refund made for it

keloVars == <<platformFeeBasisPoints, paused, depositCounter, escrowCounter,
              deposits, escrows, supportedTokens, ethBalance, tokenBalance,
              blockTimestamp, paidOut>>

\* State of the KeloPayRouter and KeloPayWithdrawal contracts, one record each
VARIABLES
    router,         \* contracts/KeloPayRouter.sol
    withdrawal      \* contracts/KeloPayWithdrawal.sol

contracts == <<keloVars, router, withdrawal>>

elsewhere == <<ingest, verify, roleHook, api, contracts>>

Resting == "resting"

\* KeloPay is not deployed
KeloPayIdle ==
    /\ platformFeeBasisPoints = Resting
    /\ paused = Resting
    /\ depositCounter = Resting
    /\ escrowCounter = Resting
    /\ deposits = Resting
    /\ escrows = Resting
    /\ supportedTokens = Resting
    /\ ethBalance = Resting
    /\ tokenBalance = Resting
    /\ blockTimestamp = Resting
    /\ paidOut = Resting

\* no contract is deployed
ContractIdle == KeloPayIdle /\ router = Resting /\ withdrawal = Resting

\* the other parts at rest
ElsewhereIdle ==
    /\ ingest = Resting
    /\ verify = Resting
    /\ roleHook = Resting
    /\ api = Resting
    /\ ContractIdle

\* rows found by the unique keys (ids), as the store's index sees them
TxIdsByHash(txs, h) == { i \in DOMAIN txs : txs[i].txHash = h }

UserIdsByAddress(us, a) == { i \in DOMAIN us : us[i].walletAddress = a }

\* findUnique: the id of the row, 0 for null
FindUnique(ids) == IF ids = {} THEN 0 ELSE CHOOSE i \in ids : \A j \in ids : i <= j

\* a Transaction table without the unique index on txHash
TxUniqueViolationNoIndex(txs, h) == FALSE

\* the unique index on Transaction.txHash refuses the insert
TxUniqueViolation(txs, h) == TxIdsByHash(txs, h) # {}

\* the unique index on User.walletAddress refuses the insert
UserUniqueViolation(us, a) == UserIdsByAddress(us, a) # {}

\* the row written by prisma.transaction.create (processor, lines 206-234)
NewTransaction(in, userId) ==
    [txHash |-> in.txHash,
     userId |-> userId,
     network |-> in.network,
     chainId |-> in.chainId,
     type |-> determineTransactionType(in),
     status |-> transactionStatus(in),
     fromAddress |-> ToLowerCase(in.fromAddress),
     fromTokenAmount |-> in.value,
     gasFeeWei |-> gasFeeWei(in),
     errorMessage |-> NoValue]

\* prisma.user.create storing the address as the envelope spells it
NewUserKeepCase(in) ==
    [walletAddress |-> in.fromAddress, role |-> "USER",
     email |-> NoValue, socialProvider |-> NoValue]

\* the row written by prisma.user.create (processor, lines 187-192)
NewUser(in) ==
    [walletAddress |-> ToLowerCase(in.fromAddress), role |-> "USER",
     email |-> NoValue, socialProvider |-> NoValue]

\* a store seeded with one privileged user (prisma/seed.ts)
SeededUsers ==
    << [walletAddress |-> <<"c", "d">>, role |-> "ADMIN",
        email |-> "admin@kelopay.com", socialProvider |-> "email"] >>

\* no delivery has arrived and the store holds the seed
PipelineIdle ==
    /\ users = SeededUsers
    /\ transactions = << >>
    /\ pc = [d \in Deliveries |-> "idle"]
    /\ req = [d \in Deliveries |-> NoRequest]
    /\ signed = [d \in Deliveries |-> FALSE]
    /\ input = [d \in Deliveries |-> NoInput]
    /\ user = [d \in Deliveries |-> 0]
    /\ resp = [d \in Deliveries |-> NoResponse]
    /\ thrown = [d \in Deliveries |-> NoError]
    /\ failedAt = [d \in Deliveries |-> ""]
    /\ doneBefore = [d \in Deliveries |-> {}]

Init ==
    /\ secret \in {NoKey, AlchemyKey}
    /\ PipelineIdle
    /\ ElsewhereIdle

\* the handler returns a response; processTransaction's local is gone
Respond(d, r) ==
    /\ pc' = [pc EXCEPT ![d] = "done"]
    /\ resp' = [resp EXCEPT ![d] = r]
    /\ user' = [user EXCEPT ![d] = 0]

\* a handler whose catch block throws the error on: the request ends
\* without a response
CatchRethrows(d, error) ==
    /\ pc' = [pc EXCEPT ![d] = "crashed"]
    /\ UNCHANGED <<resp, user>>
    /\ thrown' = [thrown EXCEPT ![d] = error]
    /\ failedAt' = [failedAt EXCEPT ![d] =
                       IF pc[d] = "idle" THEN "POST" ELSE "processTransaction"]

\* POST, lines 48-51: an error thrown by POST's own code or by a store
\* operation of processTransaction is caught and answered
Catch(d, error) ==
    /\ Respond(d, handleApiError(error))
    /\ thrown' = [thrown EXCEPT ![d] = error]
    /\ failedAt' = [failedAt EXCEPT ![d] =
                       IF pc[d] = "idle" THEN "POST" ELSE "processTransaction"]

\* POST, lines 14-36: everything up to the first store query.  The body is
\* parsed before the signature is looked at.
\* The error thrown there, if any: JSON.parse(body) on line 17, payload.type
\* of a null payload on line 27.
PostThrows(body, signature, signingKey) ==
    IF JsonParseThrows(body) THEN SyntaxError
    ELSE IF ~verifyWebhookSignature(body, signature, signingKey) THEN NoError
    ELSE IF body.shape = "null" THEN TypeError
    ELSE NoError

\* The error response returned there, if any (lines 23 and 32)
PostRejects(body, signature, signingKey) ==
    IF ~verifyWebhookSignature(body, signature, signingKey)
    THEN errorResponse("Invalid signature", 401)
    ELSE IF parseAlchemyWebhook(body) = NoInput
         THEN errorResponse("Invalid webhook payload", 400)
    ELSE NoResponse

Receive(d, body, signature) ==
    /\ pc[d] = "idle"
    /\ \A e \in Deliveries : e < d => pc[e] # "idle"
    /\ req' = [req EXCEPT ![d] = body]
    /\ signed' = [signed EXCEPT ![d] = (signature = HmacDigest(AlchemyKey, body))]
    /\ doneBefore' = [doneBefore EXCEPT ![d] = { e \in Deliveries : pc[e] = "done" }]
    /\ IF PostThrows(body, signature, secret) # NoError
       THEN /\ Catch(d, PostThrows(body, signature, secret))
            /\ UNCHANGED input
       ELSE IF PostRejects(body, signature, secret) # NoResponse
       THEN /\ Respond(d, PostRejects(body, signature, secret))
            /\ UNCHANGED <<input, thrown, failedAt>>
       ELSE /\ pc' = [pc EXCEPT ![d] = "findTx"]
            /\ input' = [input EXCEPT ![d] = parseAlchemyWebhook(body)]
            /\ UNCHANGED <<resp, user, thrown, failedAt>>
    /\ UNCHANGED <<secret, users, transactions>>
    /\ UNCHANGED elsewhere

\* processTransaction without the lookup of lines 160-167
FindTransactionNoLookup(d) ==
    /\ pc[d] = "findTx"
    /\ pc' = [pc EXCEPT ![d] = "findUser"]
    /\ UNCHANGED <<secret, users, transactions, req, signed, input, user, resp,
                   thrown, failedAt, doneBefore>>
    /\ UNCHANGED elsewhere

\* processTransaction rewriting the stored row from the redelivered envelope
FindTransactionUpsert(d) ==
    /\ pc[d] = "findTx"
    /\ IF FindUnique(TxIdsByHash(transactions, input[d].txHash)) # 0
       THEN /\ transactions' =
                   [transactions EXCEPT
                      ![FindUnique(TxIdsByHash(transactions, input[d].txHash))] =
                          NewTransaction(input[d], @.userId)]
            /\ Respond(d, successResponse(input[d].txHash,
                   FindUnique(TxIdsByHash(transactions, input[d].txHash))))
       ELSE /\ pc' = [pc EXCEPT ![d] = "findUser"]
            /\ UNCHANGED <<resp, user, transactions>>
    /\ UNCHANGED <<secret, users, req, signed, input, thrown, failedAt, doneBefore>>
    /\ UNCHANGED elsewhere

\* processTransaction, lines 160-178: prisma.transaction.findUnique answers
FindTransaction(d) ==
    /\ pc[d] = "findTx"
    /\ IF FindUnique(TxIdsByHash(transactions, input[d].txHash)) # 0
       THEN Respond(d, successResponse(
                transactions[FindUnique(TxIdsByHash(transactions, input[d].txHash))].txHash,
                FindUnique(TxIdsByHash(transactions, input[d].txHash))))
       ELSE /\ pc' = [pc EXCEPT ![d] = "findUser"]
            /\ UNCHANGED <<resp, user>>
    /\ UNCHANGED <<secret, users, transactions, req, signed, input, thrown, failedAt, doneBefore>>
    /\ UNCHANGED elsewhere

\* processTransaction, lines 181-185: prisma.user.findUnique answers
FindUser(d) ==
    /\ pc[d] = "findUser"
    /\ user' = [user EXCEPT ![d] =
                   FindUnique(UserIdsByAddress(users, ToLowerCase(input[d].fromAddress)))]
    /\ pc' = [pc EXCEPT ![d] =
                 IF user'[d] = 0 THEN "createUser" ELSE "createTx"]
    /\ UNCHANGED <<secret, users, transactions, req, signed, input, resp, thrown, failedAt, doneBefore>>
    /\ UNCHANGED elsewhere

\* processTransaction, lines 187-192: prisma.user.create answers; a thrown
\* error is rethrown (line 240) and reaches POST's catch (route.ts line 50)
CreateUser(d) ==
    /\ pc[d] = "createUser"
    /\ IF UserUniqueViolation(users, NewUser(input[d]).walletAddress)
       THEN /\ Catch(d, UniqueConstraintError("walletAddress"))
            /\ UNCHANGED users
       ELSE /\ users' = Append(users, NewUser(input[d]))
            /\ user' = [user EXCEPT ![d] = Len(users) + 1]
            /\ pc' = [pc EXCEPT ![d] = "createTx"]
            /\ UNCHANGED <<resp, thrown, failedAt>>
    /\ UNCHANGED <<secret, transactions, req, signed, input, doneBefore>>
    /\ UNCHANGED elsewhere

\* processTransaction, lines 206-237 and POST, lines 38-47:
\* prisma.transaction.create answers
CreateTransaction(d) ==
    /\ pc[d] = "createTx"
    /\ IF TxUniqueViolation(transactions, input[d].txHash)
       THEN /\ Catch(d, UniqueConstraintError("txHash"))
            /\ UNCHANGED transactions
       ELSE /\ transactions' = Append(transactions, NewTransaction(input[d], user[d]))
            /\ Respond(d, successResponse(input[d].txHash, Len(transactions) + 1))
            /\ UNCHANGED <<thrown, failedAt>>
    /\ UNCHANGED <<secret, users, req, signed, input, doneBefore>>
    /\ UNCHANGED elsewhere

\* any store operation of processTransaction throws instead of answering
PersistenceFailure(d, error) ==
    /\ pc[d] \in {"findTx", "findUser", "createUser", "createTx"}
    /\ Catch(d, error)
    /\ UNCHANGED <<secret, users, transactions, req, signed, input, doneBefore>>
    /\ UNCHANGED elsewhere

Next ==
    \/ \E d \in Deliveries : \E body \in Bodies : \E signature \in Signatures(body) :
           Receive(d, body, signature)
    \/ \E d \in Deliveries : FindTransaction(d)
    \/ \E d \in Deliveries : FindUser(d)
    \/ \E d \in Deliveries : CreateUser(d)
    \/ \E d \in Deliveries : CreateTransaction(d)

\* deliveries against a healthy store
Spec == Init /\ [][Next]_vars

NextFault ==
    \/ Next
    \/ \E d \in Deliveries : \E error \in PersistenceErrors : PersistenceFailure(d, error)

\* deliveries against a store whose operations may fail
SpecFault == Init /\ [][NextFault]_vars

\* request.text() rejects when the body stream breaks
BodyReadError == [name |-> "TypeError", message |-> "Body is unusable"]

\* POST, line 16: the body cannot be read; nothing of the request is seen
BodyReadFailure(d) ==
    /\ pc[d] = "idle"
    /\ \A e \in Deliveries : e < d => pc[e] # "idle"
    /\ doneBefore' = [doneBefore EXCEPT ![d] = { e \in Deliveries : pc[e] = "done" }]
    /\ Catch(d, BodyReadError)
    /\ UNCHANGED <<secret, users, transactions, req, signed, input>>
    /\ UNCHANGED elsewhere

NextTermination ==
    \/ NextFault
    \/ \E d \in Deliveries : BodyReadFailure(d)

\* a key is configured
InitKeyed ==
    /\ secret = AlchemyKey
    /\ PipelineIdle
    /\ ElsewhereIdle

\* deliveries to a keyed endpoint whose body stream and store may fail
SpecTermination == InitKeyed /\ [][NextTermination]_vars

\* ------------------------------------------------------------------------
\* Out-of-band status updates (lib/contracts/index.ts, updateTransactionStatus)
\* ------------------------------------------------------------------------
\* the statuses a confirmation poll writes
UpdateStatuses == {"CONFIRMED", "FAILED"}

\* the optional third argument; NoValue when the caller leaves it out
ErrorMessages == {NoValue, "reverted"}

\* prisma.transaction.update's data: a field given as undefined is left as
\* it is stored
UpdatedRow(row, status, errorMessage) ==
    [row EXCEPT !.status = status,
                !.errorMessage = IF errorMessage = NoValue THEN @ ELSE errorMessage]

\* a status update that clears failed rows out of the store
UpdateTransactionStatusPurge(txHash, status, errorMessage) ==
    /\ TxIdsByHash(transactions, txHash) # {}
    /\ transactions' =
           IF status = "FAILED"
           THEN SelectSeq(transactions, LAMBDA row : row.txHash # txHash)
           ELSE [i \in 1..Len(transactions) |->
                    IF transactions[i].txHash = txHash
                    THEN UpdatedRow(transactions[i], status, errorMessage)
                    ELSE transactions[i]]
    /\ UNCHANGED <<secret, users, pc, req, signed, input, user, resp, thrown,
                   failedAt, doneBefore>>
    /\ UNCHANGED elsewhere

\* updateTransactionStatus: the row of the hash gets the status and the
\* message; with no row for the hash the update throws and nothing is
\* written, so only calls that find a row are steps
UpdateTransactionStatus(txHash, status, errorMessage) ==
    /\ TxIdsByHash(transactions, txHash) # {}
    /\ transactions' =
           [i \in 1..Len(transactions) |->
               IF transactions[i].txHash = txHash
               THEN UpdatedRow(transactions[i], status, errorMessage)
               ELSE transactions[i]]
    /\ UNCHANGED <<secret, users, pc, req, signed, input, user, resp, thrown,
                   failedAt, doneBefore>>
    /\ UNCHANGED elsewhere

\* the envelopes of transactions sent by one wallet on a known chain
LifecycleBodies ==
    { b \in Bodies : /\ b.shape = "activity"
                     /\ b.activity.fromAddress = <<"a", "b">>
                     /\ b.activity.chainId = "1" }

NextLifecycle ==
    \/ \E d \in Deliveries : \E body \in LifecycleBodies :
           \E signature \in {HmacDigest(AlchemyKey, body), NoSignature} :
               Receive(d, body, signature)
    \/ \E d \in Deliveries : FindTransaction(d)
    \/ \E d \in Deliveries : FindUser(d)
    \/ \E d \in Deliveries : CreateUser(d)
    \/ \E d \in Deliveries : CreateTransaction(d)
    \/ \E txHash \in Hashes : \E status \in UpdateStatuses :
           \E errorMessage \in ErrorMessages :
               UpdateTransactionStatus(txHash, status, errorMessage)

\* deliveries interleaved with status updates
SpecLifecycle == Init /\ [][NextLifecycle]_vars

\* ------------------------------------------------------------------------
\* Properties
\* ------------------------------------------------------------------------
\* the delivery got past verifyWebhookSignature
Verified(d) == secret = NoKey \/ signed[d]

\* the store's unique index refused the delivery's transaction insert
LostTxRace(d) == thrown[d] = UniqueConstraintError("txHash")

\* the store's unique index refused the delivery's user insert
LostUserRace(d) == thrown[d] = UniqueConstraintError("walletAddress")

\* C1: whatever the interleaving of two deliveries carrying the same hash,
\* the store never holds two transaction rows for a hash.
C1_NoTwoRowsForOneHash ==
    \A h \in Hashes : Cardinality(TxIdsByHash(transactions, h)) <= 1

\* two deliveries of one hash both passed the existence check, one stored
\* the row and the other was refused by the store
C1_Witness ==
    \E d, e \in Deliveries :
        /\ d # e
        /\ input[d].txHash = input[e].txHash
        /\ resp[d].status = 200
        /\ LostTxRace(e)
        /\ Cardinality(TxIdsByHash(transactions, input[d].txHash)) = 1

\* C2: a delivery whose transaction insert the unique index refused is
\* answered 200 with the id of the row the winner stored.
C2_LoserAnsweredWithExistingRecord ==
    \A d \in Deliveries :
        (pc[d] = "done" /\ LostTxRace(d)) =>
            /\ resp[d].status = 200
            /\ resp[d].transactionId \in TxIdsByHash(transactions, input[d].txHash)

\* C3: the same validly signed transaction envelope delivered twice, the
\* second after the first was answered: one row for its hash, both answers
\* are 200 with that hash and the id of that row.
C3_RedeliveryIsIdempotent ==
    \A d, e \in Deliveries :
        (/\ d \in doneBefore[e]
         /\ pc[e] = "done"
         /\ req[d] = req[e]
         /\ signed[d] /\ signed[e]
         /\ parseAlchemyWebhook(req[d]) # NoInput)
        => /\ resp[d] = successResponse(req[d].activity.hash, resp[d].transactionId)
           /\ resp[e] = resp[d]
           /\ TxIdsByHash(transactions, req[d].activity.hash) = {resp[d].transactionId}

C3_Witness ==
    \E d, e \in Deliveries :
        /\ d \in doneBefore[e]
        /\ pc[e] = "done"
        /\ req[d] = req[e]
        /\ signed[d] /\ signed[e]
        /\ resp[e].status = 200
        /\ resp[e].transactionId = resp[d].transactionId
        /\ Len(transactions) = 1

\* C4: when processTransaction's lookup finds the hash stored, the call
\* returns the stored row and leaves users and transactions as they were.
C4_StoredHashLeavesStoreUnchanged ==
    [][\A d \in Deliveries :
          (/\ pc[d] = "findTx"
           /\ pc'[d] # "findTx"
           /\ TxIdsByHash(transactions, input[d].txHash) # {})
          => /\ transactions' = transactions
             /\ users' = users
             /\ pc'[d] = "done"
             /\ resp'[d].status = 200
             /\ resp'[d].transactionId \in TxIdsByHash(transactions, input[d].txHash)]_vars

\* a second envelope with the same hash but another value, status and sender
\* was answered with the first row, which still has the first envelope's data
C4_Witness ==
    \E d, e \in Deliveries :
        /\ d \in doneBefore[e]
        /\ pc[e] = "done"
        /\ input[d].txHash = input[e].txHash
        /\ input[d].value # input[e].value
        /\ input[d].status # input[e].status
        /\ ToLowerCase(input[d].fromAddress) # ToLowerCase(input[e].fromAddress)
        /\ resp[e].status = 200
        /\ resp[e].transactionId = resp[d].transactionId
        /\ transactions = << NewTransaction(input[d], transactions[1].userId) >>

\* C5: with a secret configured, a request whose signature header is missing
\* or is not the MAC of the raw body is answered 401 and never reaches the
\* store, whatever its body.
C5_BadSignatureIs401 ==
    \A d \in Deliveries :
        (pc[d] = "done" /\ secret # NoKey /\ ~signed[d]) =>
            /\ resp[d].status = 401
            /\ input[d] = NoInput

\* C6: a verified request whose envelope has no event.activity[0] is
\* answered 400 and never reaches the store.
C6_NoActivityIs400 ==
    \A d \in Deliveries :
        (/\ pc[d] = "done"
         /\ Verified(d)
         /\ req[d].shape \in {"null", "noEvent", "emptyActivity"})
        => /\ resp[d].status = 400
           /\ input[d] = NoInput

\* C7: a request whose body is not JSON, or whose activity entry names an
\* unknown chain id, is answered 400 and never reaches the store.
C7_UnparseableIs400 ==
    \A d \in Deliveries :
        (/\ pc[d] = "done"
         /\ Verified(d)
         /\ \/ req[d].shape = "notJson"
            \/ /\ req[d].shape = "activity"
               /\ getNetworkFromChainIdThrows(ParseInt(ChainIdOrDefault(req[d].activity))))
        => /\ resp[d].status = 400
           /\ input[d] = NoInput

\* C8: a delivery whose store operation threw is answered 500 with the
\* fixed text "Database error", never with the text of the error.
C8_PersistenceFailureIsGeneric500 ==
    \A d \in Deliveries :
        (pc[d] = "done" /\ failedAt[d] = "processTransaction") =>
            /\ resp[d].status = 500
            /\ resp[d].error = "Database error"
            /\ resp[d].error # thrown[d].message

\* no two users share a lowercased wallet address
UsersUniqueByLowercasedAddress ==
    \A i, j \in DOMAIN users :
        ToLowerCase(users[i].walletAddress) = ToLowerCase(users[j].walletAddress)
            => i = j

\* a step keeps every existing user row and gives a new row the role USER
UsersKeepRoles ==
    /\ Len(users') >= Len(users)
    /\ \A i \in DOMAIN users' :
          IF i \in DOMAIN users THEN users'[i] = users[i]
          ELSE users'[i].role = "USER"

\* C9: at most one user per lowercased wallet address in every reachable
\* state; a user the pipeline creates has role USER; the pipeline never
\* changes an existing user.
C9_UsersUniqueAndRolesKept ==
    [](UsersUniqueByLowercasedAddress) /\ [][UsersKeepRoles]_vars

\* two spellings of one unseen wallet were delivered and one user was made
\* for it, next to the seeded administrator
C9_Witness ==
    \E d, e \in Deliveries :
        /\ input[d].fromAddress = <<"A", "b">>
        /\ input[e].fromAddress = <<"a", "b">>
        /\ resp[d].status = 200 /\ resp[e].status = 200
        /\ users = Append(SeededUsers,
                          [walletAddress |-> <<"a", "b">>, role |-> "USER",
                           email |-> NoValue, socialProvider |-> NoValue])

\* C10: two deliveries with different hashes are both answered 200 and both
\* transactions are stored, under every interleaving.
C10_DifferentHashesBothSucceed ==
    \A d, e \in Deliveries :
        (/\ pc[d] = "done" /\ pc[e] = "done"
         /\ input[d] # NoInput /\ input[e] # NoInput
         /\ input[d].txHash # input[e].txHash)
        => /\ resp[d].status = 200
           /\ TxIdsByHash(transactions, input[d].txHash) # {}

\* ------------------------------------------------------------------------
\* Ingestion of one activity entry: parseAlchemyWebhook, then the row
\* processTransaction writes for a hash the store does not hold
\* ------------------------------------------------------------------------
MaxGas == 2

\* provider statuses: success, failure, anything else, none
IngestStatuses == {"0x1", "0x0", "0x2", NoValue}

\* decimal strings for gasUsed (a plain transfer uses 21000 gas) and gasPrice
GasUsedStrings == { <<0>>, <<2, 1, 0, 0, 0>> } \cup { <<g>> : g \in 1..MaxGas }

GasPriceStrings == { << >>, <<3, 0, 0, 0, 0>> } \cup { <<g>> : g \in 1..MaxGas }

\* the entry r with one more field
WithField(r, field, v) ==
    [f \in DOMAIN r \cup {field} |-> IF f = field THEN v ELSE r[f]]

\* the entries of S, and each with the field set to each value of V
Optional(S, field, V) == S \cup { WithField(r, field, v) : r \in S, v \in V }

\* activity entries in which value, gasUsed and gasPrice may be missing
IngestActivities ==
    Optional(Optional(Optional(
        [hash : {1}, chainId : {"1"}, fromAddress : {<<"a", "b">>},
         status : IngestStatuses],
        "value", 0..MaxValue), "gasUsed", GasUsedStrings), "gasPrice", GasPriceStrings)

NoRow == [txHash |-> 0]

InitIngest ==
    /\ ingest \in [activity : IngestActivities, row : {NoRow}]
    /\ secret = NoKey
    /\ PipelineIdle
    /\ verify = Resting /\ roleHook = Resting /\ api = Resting
    /\ ContractIdle

\* route.ts line 29 and processTransaction lines 169-234 for a new hash
Ingest ==
    /\ ingest.row = NoRow
    /\ ingest' = [ingest EXCEPT !.row =
           NewTransaction(
               parseAlchemyWebhook([shape |-> "activity", activity |-> ingest.activity]),
               1)]
    /\ UNCHANGED vars
    /\ UNCHANGED <<verify, roleHook, api>>
    /\ UNCHANGED contracts

NextIngest == Ingest

SpecIngest == InitIngest /\ [][NextIngest]_ingest

\* ------------------------------------------------------------------------
\* One call of verifyWebhookSignature, as POST makes it (route.ts, line 21)
\* ------------------------------------------------------------------------
\* every header value: none, a short one, the MAC of any body under the
\* configured key or under another key
AllSignatures ==
    { NoSignature, ShortSignature }
    \cup { HmacDigest(key, body) : key \in {AlchemyKey, ForgedKey}, body \in Bodies }

NoOutcome == "pending"

InitVerify ==
    /\ verify \in [body : Bodies, signature : AllSignatures,
                    signingKey : {NoKey, AlchemyKey}, cryptoFails : BOOLEAN,
                    outcome : {NoOutcome}, rejected : {NoResponse}]
    /\ secret = NoKey
    /\ PipelineIdle
    /\ ingest = Resting /\ roleHook = Resting /\ api = Resting
    /\ ContractIdle

\* the call, and the error response POST returns after it, if any
Verify ==
    /\ verify.outcome = NoOutcome
    /\ verify' = [verify EXCEPT
           !.outcome = VerifyOutcome(verify.body, verify.signature,
                                     verify.signingKey, verify.cryptoFails),
           !.rejected = IF VerifyOutcome(verify.body, verify.signature,
                                         verify.signingKey, verify.cryptoFails) = "true"
                        THEN PostRejects(verify.body, verify.signature, NoKey)
                        ELSE errorResponse("Invalid signature", 401)]
    /\ UNCHANGED vars
    /\ UNCHANGED <<ingest, roleHook, api>>
    /\ UNCHANGED contracts

NextVerify == Verify

SpecVerify == InitVerify /\ [][NextVerify]_verify

\* ------------------------------------------------------------------------
\* The demo role of the connected wallet (hooks/useRoleAccess.ts)
\* ------------------------------------------------------------------------
\* useAppKitAccount().address when no wallet is connected
NoAddress == << >>

\* characters an address may carry after its 0x
PrefixChars == {"0", "1", "2", "3", "4", "5", "6", "7", "a", "A"}

\* connected addresses, told apart by their first four characters
WalletAddresses ==
    { <<"0", x, c1, c2>> : x \in {"x", "X"}, c1 \in PrefixChars, c2 \in PrefixChars }

\* String.prototype.startsWith
StartsWith(s, prefix) ==
    Len(s) >= Len(prefix) /\ SubSeq(s, 1, Len(prefix)) = prefix

\* the role memo, lines 37-59
DemoRole(address) ==
    IF address = NoAddress THEN "USER"
    ELSE LET addressLower == ToLowerCase(address) IN
         IF StartsWith(addressLower, <<"0", "x", "0", "0">>)
            \/ StartsWith(addressLower, <<"0", "x", "1", "1">>) THEN "ADMIN"
         ELSE IF StartsWith(addressLower, <<"0", "x", "2", "2">>) THEN "OPERATIONS"
         ELSE IF StartsWith(addressLower, <<"0", "x", "3", "3">>) THEN "GROWTH"
         ELSE IF StartsWith(addressLower, <<"0", "x", "4", "4">>) THEN "MERCHANT"
         ELSE "USER"

\* the table of README.md, Demo Role Assignment
ReadmeRole(address) ==
    IF address = NoAddress THEN "USER"
    ELSE LET addressLower == ToLowerCase(address) IN
         IF StartsWith(addressLower, <<"0", "x", "0", "0">>)
            \/ StartsWith(addressLower, <<"0", "x", "1", "1">>) THEN "ADMIN"
         ELSE IF StartsWith(addressLower, <<"0", "x", "2", "2">>)
            \/ StartsWith(addressLower, <<"0", "x", "3", "3">>) THEN "OPERATIONS"
         ELSE IF StartsWith(addressLower, <<"0", "x", "4", "4">>)
            \/ StartsWith(addressLower, <<"0", "x", "5", "5">>) THEN "GROWTH"
         ELSE IF StartsWith(addressLower, <<"0", "x", "6", "6">>)
            \/ StartsWith(addressLower, <<"0", "x", "7", "7">>) THEN "MERCHANT"
         ELSE "USER"

NoRole == ""

InitRole ==
    /\ roleHook \in [address : WalletAddresses \cup {NoAddress}, role : {NoRole}]
    /\ secret = NoKey
    /\ PipelineIdle
    /\ ingest = Resting /\ verify = Resting /\ api = Resting
    /\ ContractIdle

\* the hook renders
UseRoleAccess ==
    /\ roleHook.role = NoRole
    /\ roleHook' = [roleHook EXCEPT !.role = DemoRole(roleHook.address)]
    /\ UNCHANGED vars
    /\ UNCHANGED <<ingest, verify, api>>
    /\ UNCHANGED contracts

NextRole == UseRoleAccess

SpecRole == InitRole /\ [][NextRole]_roleHook

\* ------------------------------------------------------------------------
\* POST /api/user (app/api/user/route.ts): two requests in flight
\* ------------------------------------------------------------------------
Requests == {1, 2}

\* a string the address pattern of userSchema refuses
MalformedAddress == <<"z", "z">>

\* userSchema, line 12
ValidWalletAddress(address) == address \in Addresses

NotAnEmail == "not-an-email"

\* userSchema, line 13: email is optional, and an email if present
ValidEmail(email) == email # NotAnEmail

\* request bodies: walletAddress, email?, socialProvider?
UserBodies ==
    [walletAddress : Addresses \cup {MalformedAddress},
     email : {NoValue, "new@kelopay.com", NotAnEmail},
     socialProvider : {NoValue, "google"}]

ZodError == [name |-> "ZodError", message |-> "Invalid input"]

\* userSchema.parse(body) throws
UserSchemaThrows(body) ==
    ~ValidWalletAddress(body.walletAddress) \/ ~ValidEmail(body.email)

\* successResponse(user, status)
userResponse(userId, status) == [status |-> status, error |-> "", userId |-> userId]

\* a || b on optional strings
OrElse(a, b) == IF a = NoValue THEN b ELSE a

NoBody == [walletAddress |-> << >>, email |-> NoValue, socialProvider |-> NoValue]

NoUserRow ==
    [walletAddress |-> << >>, role |-> "", email |-> NoValue, socialProvider |-> NoValue]

ApiIdle == [pc |-> "idle", data |-> NoBody, userId |-> 0, user |-> NoUserRow,
            resp |-> NoResponse, thrown |-> NoError]

InitUserApi ==
    /\ api = [r \in Requests |-> ApiIdle]
    /\ secret = NoKey
    /\ PipelineIdle
    /\ ingest = Resting /\ verify = Resting /\ roleHook = Resting
    /\ ContractIdle

\* the handler of r returns
ApiRespond(r, response, error) ==
    api' = [api EXCEPT ![r].pc = "done", ![r].resp = response, ![r].thrown = error]

\* lines 68-69: the body is parsed and validated
ApiPost(r, body) ==
    /\ api[r].pc = "idle"
    /\ \A q \in Requests : q < r => api[q].pc # "idle"
    /\ IF UserSchemaThrows(body)
       THEN api' = [api EXCEPT ![r].pc = "done", ![r].data = body,
                               ![r].resp = handleApiError(ZodError),
                               ![r].thrown = ZodError]
       ELSE api' = [api EXCEPT ![r].pc = "findUser", ![r].data = body]
    /\ UNCHANGED vars
    /\ UNCHANGED <<ingest, verify, roleHook>>
    /\ UNCHANGED contracts

\* lines 72-74: prisma.user.findUnique by the lowercased address
ApiFindUser(r) ==
    /\ api[r].pc = "findUser"
    /\ LET id == FindUnique(UserIdsByAddress(users, ToLowerCase(api[r].data.walletAddress)))
       IN api' = [api EXCEPT ![r].pc = IF id = 0 THEN "create" ELSE "update",
                             ![r].userId = id,
                             ![r].user = IF id = 0 THEN NoUserRow ELSE users[id]]
    /\ UNCHANGED vars
    /\ UNCHANGED <<ingest, verify, roleHook>>
    /\ UNCHANGED contracts

\* lines 78-98: prisma.user.update by id; the defaults are the values the
\* lookup read
ApiUpdateUser(r) ==
    /\ api[r].pc = "update"
    /\ users' = [users EXCEPT ![api[r].userId] =
           [@ EXCEPT !.email = OrElse(api[r].data.email, api[r].user.email),
                     !.socialProvider = OrElse(api[r].data.socialProvider,
                                               api[r].user.socialProvider)]]
    /\ ApiRespond(r, userResponse(api[r].userId, 200), NoError)
    /\ UNCHANGED <<secret, transactions, pc, req, signed, input, user, resp, thrown,
                   failedAt, doneBefore>>
    /\ UNCHANGED <<ingest, verify, roleHook>>
    /\ UNCHANGED contracts

\* lines 102-123: prisma.user.create with the default role
ApiCreateUser(r) ==
    /\ api[r].pc = "create"
    /\ IF UserUniqueViolation(users, ToLowerCase(api[r].data.walletAddress))
       THEN /\ ApiRespond(r, handleApiError(UniqueConstraintError("walletAddress")),
                          UniqueConstraintError("walletAddress"))
            /\ UNCHANGED users
       ELSE /\ users' = Append(users,
                   [walletAddress |-> ToLowerCase(api[r].data.walletAddress),
                    role |-> "USER",
                    email |-> api[r].data.email,
                    socialProvider |-> api[r].data.socialProvider])
            /\ ApiRespond(r, userResponse(Len(users) + 1, 201), NoError)
    /\ UNCHANGED <<secret, transactions, pc, req, signed, input, user, resp, thrown,
                   failedAt, doneBefore>>
    /\ UNCHANGED <<ingest, verify, roleHook>>
    /\ UNCHANGED contracts

NextUserApi ==
    \/ \E r \in Requests : \E body \in UserBodies : ApiPost(r, body)
    \/ \E r \in Requests : ApiFindUser(r)
    \/ \E r \in Requests : ApiUpdateUser(r)
    \/ \E r \in Requests : ApiCreateUser(r)

SpecUserApi == InitUserApi /\ [][NextUserApi]_<<users, api>>

\* ------------------------------------------------------------------------
\* The KeloPay contract (contracts/KeloPay.sol): one action per external
\* function.  A call that reverts changes nothing.
\* ------------------------------------------------------------------------
MAX_FEE_BASIS_POINTS == 500

ETH_ADDRESS == "0x0"

\* the ERC20 token of the model
Usdc == "usdc"

Tokens == {ETH_ADDRESS, Usdc}

\* the deployer passes the treasury, which Ownable makes the owner
Treasury == "treasury"

Owner == Treasury

\* accounts that send transactions, and the zero address as a recipient
Senders == {Owner, "user1"}

Recipients == {"user2", ETH_ADDRESS}

MaxAmount == 2

\* amounts are multiples of 150, which the fees do not divide evenly
Amounts == { 150 * a : a \in 1..MaxAmount }

\* block.timestamp
BlockTimestamps == {0, 1}

\* release times a depositor may ask for
ReleaseTimes == {0, 1, 2}

\* the ids createEscrow fills, and one id beyond them
EscrowSlots == {0, 1}

EscrowIds == EscrowSlots \cup {2}

\* the ids depositETH and depositToken fill
DepositSlots == {0}

\* fees the owner may ask for
FeeValues == {0, 100, MAX_FEE_BASIS_POINTS, MAX_FEE_BASIS_POINTS + 1}

\* a slot of the escrows mapping nothing was written to
NoEscrow ==
    [depositor |-> ETH_ADDRESS, token |-> ETH_ADDRESS, amount |-> 0,
     releaseTime |-> 0, released |-> FALSE, refunded |-> FALSE]

\* a payment of a positive amount, none for the amount 0
Payment(to, amount) == IF amount = 0 THEN << >> ELSE << [to |-> to, amount |-> amount] >>

\* why the constructor reverts, "" if it does not (lines 94-96)
constructorReverts(treasury, feeBasisPoints) ==
    IF treasury = ETH_ADDRESS THEN "OwnableInvalidOwner"
    ELSE IF feeBasisPoints > MAX_FEE_BASIS_POINTS THEN "Fee too high"
    ELSE ""

\* constructor, lines 94-103, with a fee it accepts
InitKeloPay ==
    /\ platformFeeBasisPoints \in { f \in FeeValues : constructorReverts(Treasury, f) = "" }
    /\ paused = FALSE
    /\ depositCounter = 0
    /\ escrowCounter = 0
    /\ deposits = << >>
    /\ escrows = [id \in EscrowIds |-> NoEscrow]
    /\ supportedTokens = {ETH_ADDRESS}
    /\ ethBalance = 0
    /\ tokenBalance = 0
    /\ blockTimestamp = 0
    /\ paidOut = [id \in EscrowIds |-> << >>]
    /\ secret = NoKey
    /\ PipelineIdle
    /\ ingest = Resting /\ verify = Resting /\ roleHook = Resting /\ api = Resting
    /\ router = Resting /\ withdrawal = Resting

\* the transaction reverts: every write is undone
Revert == UNCHANGED keloVars

\* a deposit the pause does not stop
depositETHRevertsNoPause(value) ==
    IF value = 0 THEN "Amount must be greater than 0" ELSE ""

\* why depositETH reverts, "" if it does not (lines 108-109)
depositETHReverts(value) ==
    IF paused THEN "EnforcedPause"
    ELSE IF value = 0 THEN "Amount must be greater than 0"
    ELSE ""

depositETH(sender, value) ==
    /\ IF depositETHReverts(value) # ""
       THEN Revert
       ELSE /\ depositCounter \in DepositSlots
            /\ depositCounter' = depositCounter + 1
            /\ deposits' = Append(deposits,
                   [user |-> sender, token |-> ETH_ADDRESS, amount |-> value,
                    withdrawn |-> FALSE])
            /\ ethBalance' = ethBalance + value
            /\ UNCHANGED <<platformFeeBasisPoints, paused, escrowCounter, escrows,
                           supportedTokens, tokenBalance, blockTimestamp, paidOut>>
    /\ UNCHANGED vars
    /\ UNCHANGED <<ingest, verify, roleHook, api, router, withdrawal>>

\* why depositToken reverts (lines 131-134, 148); approved tells whether the
\* sender holds and has approved the amount
depositTokenReverts(token, amount, approved) ==
    IF paused THEN "EnforcedPause"
    ELSE IF amount = 0 THEN "Amount must be greater than 0"
    ELSE IF token = ETH_ADDRESS THEN "Invalid token address"
    ELSE IF token \notin supportedTokens THEN "Token not supported"
    ELSE IF ~approved THEN "ERC20InsufficientAllowance"
    ELSE ""

depositToken(sender, token, amount, approved) ==
    /\ IF depositTokenReverts(token, amount, approved) # ""
       THEN Revert
       ELSE /\ depositCounter \in DepositSlots
            /\ depositCounter' = depositCounter + 1
            /\ deposits' = Append(deposits,
                   [user |-> sender, token |-> token, amount |-> amount,
                    withdrawn |-> FALSE])
            /\ tokenBalance' = tokenBalance + amount
            /\ UNCHANGED <<platformFeeBasisPoints, paused, escrowCounter, escrows,
                           supportedTokens, ethBalance, blockTimestamp, paidOut>>
    /\ UNCHANGED vars
    /\ UNCHANGED <<ingest, verify, roleHook, api, router, withdrawal>>

\* a creation that takes any ETH value for the amount
createEscrowRevertsAnyValue(token, amount, releaseTime, value, approved) ==
    IF paused THEN "EnforcedPause"
    ELSE IF amount = 0 THEN "Amount must be greater than 0"
    ELSE IF releaseTime <= blockTimestamp THEN "Release time must be in future"
    ELSE IF token \notin supportedTokens THEN "Token not supported"
    ELSE IF token # ETH_ADDRESS /\ ~approved THEN "ERC20InsufficientAllowance"
    ELSE ""

\* a creation that takes any release time
createEscrowRevertsAnyTime(token, amount, releaseTime, value, approved) ==
    IF paused THEN "EnforcedPause"
    ELSE IF amount = 0 THEN "Amount must be greater than 0"
    ELSE IF token \notin supportedTokens THEN "Token not supported"
    ELSE IF token = ETH_ADDRESS /\ value # amount THEN "ETH amount mismatch"
    ELSE IF token # ETH_ADDRESS /\ ~approved THEN "ERC20InsufficientAllowance"
    ELSE ""

\* why createEscrow reverts (lines 165-176)
createEscrowReverts(token, amount, releaseTime, value, approved) ==
    IF paused THEN "EnforcedPause"
    ELSE IF amount = 0 THEN "Amount must be greater than 0"
    ELSE IF releaseTime <= blockTimestamp THEN "Release time must be in future"
    ELSE IF token \notin supportedTokens THEN "Token not supported"
    ELSE IF token = ETH_ADDRESS /\ value # amount THEN "ETH amount mismatch"
    ELSE IF token # ETH_ADDRESS /\ ~approved THEN "ERC20InsufficientAllowance"
    ELSE ""

createEscrow(sender, token, amount, releaseTime, value, approved) ==
    /\ IF createEscrowReverts(token, amount, releaseTime, value, approved) # ""
       THEN Revert
       ELSE /\ escrowCounter \in EscrowSlots
            /\ escrowCounter' = escrowCounter + 1
            /\ escrows' = [escrows EXCEPT ![escrowCounter] =
                   [depositor |-> sender, token |-> token, amount |-> amount,
                    releaseTime |-> releaseTime, released |-> FALSE,
                    refunded |-> FALSE]]
            /\ ethBalance' = ethBalance + value
            /\ tokenBalance' = IF token = ETH_ADDRESS THEN tokenBalance
                               ELSE tokenBalance + amount
            /\ UNCHANGED <<platformFeeBasisPoints, paused, depositCounter, deposits,
                           supportedTokens, blockTimestamp, paidOut>>
    /\ UNCHANGED vars
    /\ UNCHANGED <<ingest, verify, roleHook, api, router, withdrawal>>

\* a fee rounded up to the next unit
PlatformFeeRoundedUp(amount) == (amount * platformFeeBasisPoints + 9999) \div 10000

\* line 211
PlatformFee(amount) == (amount * platformFeeBasisPoints) \div 10000

\* the contract's balance of the token
BalanceOf(token) == IF token = ETH_ADDRESS THEN ethBalance ELSE tokenBalance

\* the contract's balances after it sent the amount of the token
Pay(token, amount) ==
    /\ ethBalance' = IF token = ETH_ADDRESS THEN ethBalance - amount ELSE ethBalance
    /\ tokenBalance' = IF token = ETH_ADDRESS THEN tokenBalance
                       ELSE tokenBalance - amount

\* why releaseEscrow reverts (lines 201-220); a transfer of more than the
\* contract holds reverts
releaseEscrowReverts(sender, escrowId, recipient) ==
    IF sender # Owner THEN "OwnableUnauthorizedAccount"
    ELSE IF escrows[escrowId].released THEN "Escrow already released"
    ELSE IF escrows[escrowId].refunded THEN "Escrow already refunded"
    ELSE IF blockTimestamp < escrows[escrowId].releaseTime
         THEN "Escrow not ready for release"
    ELSE IF recipient = ETH_ADDRESS THEN "Invalid recipient"
    ELSE IF BalanceOf(escrows[escrowId].token) < escrows[escrowId].amount
         THEN "insufficient balance"
    ELSE ""

releaseEscrow(sender, escrowId, recipient) ==
    /\ IF releaseEscrowReverts(sender, escrowId, recipient) # ""
       THEN Revert
       ELSE /\ escrows' = [escrows EXCEPT ![escrowId].released = TRUE]
            /\ Pay(escrows[escrowId].token, escrows[escrowId].amount)
            /\ paidOut' = [paidOut EXCEPT ![escrowId] =
                   @ \o Payment(Treasury, PlatformFee(escrows[escrowId].amount))
                     \o Payment(recipient, escrows[escrowId].amount
                                           - PlatformFee(escrows[escrowId].amount))]
            /\ UNCHANGED <<platformFeeBasisPoints, paused, depositCounter,
                           escrowCounter, deposits, supportedTokens, blockTimestamp>>
    /\ UNCHANGED vars
    /\ UNCHANGED <<ingest, verify, roleHook, api, router, withdrawal>>

\* why refundEscrow reverts (lines 229-241)
refundEscrowReverts(sender, escrowId) ==
    IF sender # Owner THEN "OwnableUnauthorizedAccount"
    ELSE IF escrows[escrowId].released THEN "Escrow already released"
    ELSE IF escrows[escrowId].refunded THEN "Escrow already refunded"
    ELSE IF BalanceOf(escrows[escrowId].token) < escrows[escrowId].amount
         THEN "insufficient balance"
    ELSE ""

refundEscrow(sender, escrowId) ==
    /\ IF refundEscrowReverts(sender, escrowId) # ""
       THEN Revert
       ELSE /\ escrows' = [escrows EXCEPT ![escrowId].refunded = TRUE]
            /\ Pay(escrows[escrowId].token, escrows[escrowId].amount)
            /\ paidOut' = [paidOut EXCEPT ![escrowId] =
                   @ \o Payment(escrows[escrowId].depositor, escrows[escrowId].amount)]
            /\ UNCHANGED <<platformFeeBasisPoints, paused, depositCounter,
                           escrowCounter, deposits, supportedTokens, blockTimestamp>>
    /\ UNCHANGED vars
    /\ UNCHANGED <<ingest, verify, roleHook, api, router, withdrawal>>

\* an update that takes any fee from the owner
updatePlatformFeeRevertsNoCap(sender, newFeeBasisPoints) ==
    IF sender # Owner THEN "OwnableUnauthorizedAccount" ELSE ""

\* why updatePlatformFee reverts (lines 267-268)
updatePlatformFeeReverts(sender, newFeeBasisPoints) ==
    IF sender # Owner THEN "OwnableUnauthorizedAccount"
    ELSE IF newFeeBasisPoints > MAX_FEE_BASIS_POINTS THEN "Fee too high"
    ELSE ""

updatePlatformFee(sender, newFeeBasisPoints) ==
    /\ IF updatePlatformFeeReverts(sender, newFeeBasisPoints) # ""
       THEN Revert
       ELSE /\ platformFeeBasisPoints' = newFeeBasisPoints
            /\ UNCHANGED <<paused, depositCounter, escrowCounter, deposits, escrows,
                           supportedTokens, ethBalance, tokenBalance, blockTimestamp,
                           paidOut>>
    /\ UNCHANGED vars
    /\ UNCHANGED <<ingest, verify, roleHook, api, router, withdrawal>>

\* a block is mined
NextBlock ==
    /\ blockTimestamp + 1 \in BlockTimestamps
    /\ blockTimestamp' = blockTimestamp + 1
    /\ UNCHANGED <<platformFeeBasisPoints, paused, depositCounter, escrowCounter,
                   deposits, escrows, supportedTokens, ethBalance, tokenBalance,
                   paidOut>>
    /\ UNCHANGED vars
    /\ UNCHANGED <<ingest, verify, roleHook, api, router, withdrawal>>

\* the life of escrows: creation, release, refund, at a fee the owner sets
NextKeloPay ==
    \/ \E sender \in Senders : \E token \in Tokens : \E amount \in {0} \cup Amounts :
           \E releaseTime \in ReleaseTimes : \E value \in {0} \cup Amounts :
               \E approved \in BOOLEAN :
                   createEscrow(sender, token, amount, releaseTime, value, approved)
    \/ \E sender \in Senders : \E escrowId \in EscrowIds : \E recipient \in Recipients :
           releaseEscrow(sender, escrowId, recipient)
    \/ \E sender \in Senders : \E escrowId \in EscrowIds : refundEscrow(sender, escrowId)
    \/ \E sender \in Senders : \E fee \in FeeValues : updatePlatformFee(sender, fee)
    \/ NextBlock

SpecKeloPay == InitKeloPay /\ [][NextKeloPay]_keloVars

\* an updateTransactionStatus step
IsStatusUpdate ==
    \E txHash \in Hashes : \E status \in UpdateStatuses :
        \E errorMessage \in ErrorMessages :
            UpdateTransactionStatus(txHash, status, errorMessage)

\* every stored row is still stored, in its place, and differs from what it
\* was at most in status and errorMessage, and then by a status update
RowsKept ==
    /\ Len(transactions') >= Len(transactions)
    /\ \A i \in 1..Len(transactions) :
          /\ [transactions'[i] EXCEPT !.status = transactions[i].status,
                                      !.errorMessage = transactions[i].errorMessage]
                 = transactions[i]
          /\ transactions'[i] # transactions[i] => IsStatusUpdate

\* C11: across deliveries and updateTransactionStatus calls a hash has at
\* most one row, no row is ever removed, and a stored row changes only in its
\* status and errorMessage, and only in an updateTransactionStatus step.
C11_RowsCreatedOnceNeverDeleted ==
    [](\A h \in Hashes : Cardinality(TxIdsByHash(transactions, h)) <= 1)
    /\ [][RowsKept]_vars

\* two rows are stored, one of them updated after ingestion to a status and
\* a message ingestion never writes
C11_Witness ==
    /\ Len(transactions) = 2
    /\ \E i \in 1..2 : /\ transactions[i].status = "CONFIRMED"
                        /\ transactions[i].errorMessage = "reverted"
    /\ \A d \in Deliveries : pc[d] = "done"

\* the entry has been ingested
Ingested == ingest.row # NoRow

\* the value the entry carries; an entry without one carries none, which
\* ingestion reads as 0
EntryValue == ValueOrZero(ingest.activity)

\* C12: an ingested row has type TRANSFER exactly when the entry's value is
\* greater than 0 and CONVERSION exactly when it is 0, and status COMPLETED
\* exactly when the provider status is "0x1" and FAILED for every other
\* provider status, a missing one included.
C12_ClassifiedByValueAndStatus ==
    Ingested =>
        /\ (ingest.row.type = "TRANSFER") <=> (EntryValue > 0)
        /\ (ingest.row.type = "CONVERSION") <=> (EntryValue = 0)
        /\ (ingest.row.status = "COMPLETED") <=> (ingest.activity.status = "0x1")
        /\ (ingest.row.status = "FAILED") <=> (ingest.activity.status # "0x1")

\* an entry with value 0 and no provider status was stored as a failed
\* conversion
C12_Witness ==
    /\ Ingested
    /\ "value" \in DOMAIN ingest.activity /\ ingest.activity.value = 0
    /\ ingest.activity.status = NoValue
    /\ ingest.row.type = "CONVERSION"
    /\ ingest.row.status = "FAILED"

\* the entry carries both gas fields
HasGas == {"gasUsed", "gasPrice"} \subseteq DOMAIN ingest.activity

\* a decimal string without leading zeros
Canonical(s) == Len(s) >= 1 /\ (Len(s) > 1 => s[1] # 0)

\* C16: the stored gas fee is the decimal string of the exact product of
\* gasUsed and gasPrice (21000 * 30000 is stored as 630000000), and is "0"
\* when the entry lacks either field.
C16_GasFeeIsExactProduct ==
    Ingested =>
        /\ Canonical(ingest.row.gasFeeWei)
        /\ HasGas =>
              BigInt(ingest.row.gasFeeWei)
                  = BigInt(ingest.activity.gasUsed) * BigInt(ingest.activity.gasPrice)
        /\ (HasGas /\ ingest.activity.gasUsed = <<2, 1, 0, 0, 0>>
                   /\ ingest.activity.gasPrice = <<3, 0, 0, 0, 0>>)
              => ingest.row.gasFeeWei = <<6, 3, 0, 0, 0, 0, 0, 0, 0>>
        /\ ~HasGas => ingest.row.gasFeeWei = <<0>>

\* a transfer's 21000 gas at a price whose product has nonzero low digits
C16_Witness ==
    /\ Ingested
    /\ HasGas
    /\ ingest.activity.gasUsed = <<2, 1, 0, 0, 0>>
    /\ ingest.activity.gasPrice = <<1>>
    /\ ingest.row.gasFeeWei = <<2, 1, 0, 0, 0>>

\* the call has returned or thrown
VerifyReturned == verify.outcome # NoOutcome

\* C13: verifyWebhookSignature ends with a boolean, never with an error,
\* for every header value, one of the wrong length included; when hashing
\* or comparing throws, the boolean is false.
C13_VerifyNeverThrows ==
    VerifyReturned =>
        /\ verify.outcome \in {"true", "false"}
        /\ (/\ verify.signingKey # NoKey
            /\ verify.signature # NoSignature
            /\ HmacCompare(verify.body, verify.signature, verify.signingKey,
                           verify.cryptoFails) = "throws")
           => verify.outcome = "false"

\* a header of the wrong length made the comparison throw with a working
\* crypto library, and the call returned false
C13_Witness ==
    /\ VerifyReturned
    /\ verify.signingKey = AlchemyKey
    /\ verify.signature = ShortSignature
    /\ ~verify.cryptoFails
    /\ TimingSafeEqualThrows(verify.signature, HmacDigest(AlchemyKey, verify.body))
    /\ verify.outcome = "false"

\* C14: with a key configured (and a working crypto library) the call returns
\* true for a body with the MAC of that body under the key, and false for
\* the MAC of any other body under the key.
C14_MacBindsBody ==
    (VerifyReturned /\ verify.signingKey # NoKey /\ ~verify.cryptoFails) =>
        \A signedBody \in Bodies :
            verify.signature = HmacDigest(verify.signingKey, signedBody) =>
                /\ verify.body = signedBody => verify.outcome = "true"
                /\ verify.body # signedBody => verify.outcome = "false"

\* the MAC of one envelope was presented with an envelope that differs from
\* it in the value only
C14_Witness ==
    /\ VerifyReturned
    /\ verify.signingKey = AlchemyKey
    /\ ~verify.cryptoFails
    /\ verify.body.shape = "activity"
    /\ \E signedBody \in Bodies :
          /\ signedBody.shape = "activity"
          /\ verify.signature = HmacDigest(AlchemyKey, signedBody)
          /\ signedBody.activity.value # verify.body.activity.value
          /\ [signedBody.activity EXCEPT !.value = verify.body.activity.value]
                 = verify.body.activity
    /\ verify.outcome = "false"

\* C15: with no key configured the call returns true whatever the header,
\* POST does not answer 401, and an envelope that parses goes on to
\* processTransaction.
C15_NoKeyAcceptsEverything ==
    (VerifyReturned /\ verify.signingKey = NoKey) =>
        /\ verify.outcome = "true"
        /\ verify.rejected.status # 401
        /\ parseAlchemyWebhook(verify.body) # NoInput => verify.rejected = NoResponse

\* with no key configured, an envelope carrying a MAC made with another key
\* was accepted and handed on
C15_Witness ==
    /\ VerifyReturned
    /\ verify.signingKey = NoKey
    /\ verify.signature = HmacDigest(ForgedKey, verify.body)
    /\ parseAlchemyWebhook(verify.body) # NoInput
    /\ verify.outcome = "true"
    /\ verify.rejected = NoResponse

\* how far a handler has come
Rank(p) ==
    CASE p = "idle" -> 0
      [] p = "findTx" -> 1
      [] p = "findUser" -> 2
      [] p = "createUser" -> 3
      [] p = "createTx" -> 4
      [] OTHER -> 5

\* the handler of d is between two awaits
InFlight(d) == pc[d] \in {"findTx", "findUser", "createUser", "createTx"}

\* a response has been returned exactly when the handler is done, its
\* status is one of the four, an error thrown was answered by handleApiError,
\* and a handler in flight has a next step
AnsweredWhenDone ==
    \A d \in Deliveries :
        /\ pc[d] \in {"idle", "findTx", "findUser", "createUser", "createTx", "done"}
        /\ pc[d] = "done" <=> resp[d] # NoResponse
        /\ pc[d] = "done" => resp[d].status \in {200, 400, 401, 500}
        /\ thrown[d] # NoError => (pc[d] = "done" /\ resp[d] = handleApiError(thrown[d]))
        /\ InFlight(d) =>
              ENABLED (\/ FindTransaction(d) \/ FindUser(d)
                       \/ CreateUser(d) \/ CreateTransaction(d))

\* every step of a handler takes it further, and a response once returned
\* stays the response
OneResponse ==
    \A d \in Deliveries :
        /\ pc'[d] # pc[d] => Rank(pc'[d]) > Rank(pc[d])
        /\ pc[d] = "done" => (pc'[d] = "done" /\ resp'[d] = resp[d])

\* C17: every POST ends, after at most five steps, with one response whose
\* status is 200, 400, 401 or 500; an error thrown while reading the body,
\* parsing, verifying or persisting is answered, never left uncaught.
C17_EveryPostAnswersOnce ==
    [](AnsweredWhenDone) /\ [][OneResponse]_vars

\* one delivery's body stream broke and the other's store was unreachable;
\* both were answered 500
C17_Witness ==
    \E d, e \in Deliveries :
        /\ thrown[d] = BodyReadError /\ resp[d].status = 500
        /\ failedAt[e] = "processTransaction" /\ resp[e].status = 500
        /\ thrown[e].name = "PrismaClientInitializationError"

\* C18: the role the hook derives for the connected address is the role
\* the README's prefix table gives it.
C18_RoleFollowsReadmeTable ==
    roleHook.role # NoRole => roleHook.role = ReadmeRole(roleHook.address)

\* a request with a well-formed body has been answered
ApiAnswered(r) == api[r].pc = "done" /\ ~UserSchemaThrows(api[r].data)

\* answers: 201 and a USER row when the lookup found no user for the
\* lowercased address, 200 when it found one; at most one row per
\* lowercased address
UserCreatedOrUpdated ==
    /\ \A r \in Requests :
          ApiAnswered(r) =>
              /\ api[r].userId = 0 =>
                    /\ api[r].resp.status = 201
                    /\ users[api[r].resp.userId].role = "USER"
                    /\ users[api[r].resp.userId].walletAddress
                           = ToLowerCase(api[r].data.walletAddress)
              /\ api[r].userId # 0 =>
                    /\ api[r].resp.status = 200
                    /\ api[r].resp.userId = api[r].userId
    /\ \A a \in Addresses : Cardinality(UserIdsByAddress(users, ToLowerCase(a))) <= 1

\* a stored user keeps its walletAddress and its role
UserIdentityKept ==
    /\ Len(users') >= Len(users)
    /\ \A i \in 1..Len(users) :
          /\ users'[i].walletAddress = users[i].walletAddress
          /\ users'[i].role = users[i].role

\* C19: a POST /api/user with a well-formed body is answered 201 with a new
\* USER row when no user has the lowercased address and 200 otherwise; a
\* stored user changes in email and socialProvider only, and the spellings of
\* an address share one row.
C19_UserCreatedOnceThenUpdated ==
    [](UserCreatedOrUpdated) /\ [][UserIdentityKept]_<<users, api>>

\* createEscrow has stored the escrow
Created(id) == id < escrowCounter

\* the escrow was released or refunded
Settled(id) == escrows[id].released \/ escrows[id].refunded

\* the sum of the amounts of a sequence of payments
RECURSIVE Total(_)
Total(payments) ==
    IF payments = << >> THEN 0 ELSE payments[1].amount + Total(Tail(payments))

\* the slot is not both released and refunded; the escrow has paid out its
\* amount if it is settled and nothing otherwise, a refunded one all of it
\* to its depositor; on a settled one every release and every refund reverts
PaysOutOnce(id) ==
    /\ ~(escrows[id].released /\ escrows[id].refunded)
    /\ Total(paidOut[id]) = IF Settled(id) THEN escrows[id].amount ELSE 0
    /\ escrows[id].refunded =>
          paidOut[id] = Payment(escrows[id].depositor, escrows[id].amount)
    /\ Settled(id) =>
          /\ \A sender \in Senders : \A recipient \in Recipients :
                releaseEscrowReverts(sender, id, recipient) # ""
          /\ \A sender \in Senders : refundEscrowReverts(sender, id) # ""

\* a settled escrow stays as it is, and the step that refunds an escrow
\* takes its whole amount out of the contract and leaves released false
SettledForGood(id) ==
    /\ Settled(id) => (escrows'[id] = escrows[id] /\ paidOut'[id] = paidOut[id])
    /\ (~escrows[id].refunded /\ escrows'[id].refunded) =>
          /\ ~escrows'[id].released
          /\ BalanceOf(escrows[id].token)' = BalanceOf(escrows[id].token)
                                              - escrows[id].amount
          /\ paidOut'[id] = Payment(escrows[id].depositor, escrows[id].amount)

\* C20: no escrow is both released and refunded, an escrow pays out at
\* most once, after a release or refund on an escrow id every later release
\* and refund on that id reverts, and a refund sends the whole amount to the
\* depositor, without a fee, and leaves released false.
C20_EscrowSettlesOnce ==
    [](\A id \in EscrowIds : PaysOutOnce(id))
    /\ [][\A id \in EscrowIds : SettledForGood(id)]_keloVars

\* the same of the escrows createEscrow has stored: it holds
CreatedEscrowSettlesOnce ==
    [](\A id \in EscrowIds : Created(id) => PaysOutOnce(id))
    /\ [][\A id \in EscrowIds : Created(id) => SettledForGood(id)]_keloVars

\* escrow 0 was released with a fee and escrow 1 refunded in full, and the
\* owner's further calls on both revert
TwoEscrowsSettled ==
    /\ escrowCounter = 2
    /\ escrows[0].released /\ Len(paidOut[0]) = 2
    /\ escrows[1].refunded /\ ~escrows[1].released
    /\ paidOut[1] = << [to |-> "user1", amount |-> escrows[1].amount] >>
    /\ releaseEscrowReverts(Owner, 0, "user2") = "Escrow already released"
    /\ refundEscrowReverts(Owner, 0) = "Escrow already released"
    /\ releaseEscrowReverts(Owner, 1, "user2") = "Escrow already refunded"
    /\ refundEscrowReverts(Owner, 1) = "Escrow already refunded"

\* the payments a step adds to the log of the escrow id
NewPayments(id) == SubSeq(paidOut'[id], Len(paidOut[id]) + 1, Len(paidOut'[id]))

\* what a sequence of payments sends to the account
RECURSIVE PaidTo(_, _)
PaidTo(payments, to) ==
    IF payments = << >> THEN 0
    ELSE (IF payments[1].to = to THEN payments[1].amount ELSE 0)
         + PaidTo(Tail(payments), to)

\* the step releases the escrow id
Releases(id) == ~escrows[id].released /\ escrows'[id].released

\* fee is the floor of amount * basisPoints / 10000
IsFloorFee(fee, amount, basisPoints) ==
    /\ fee * 10000 <= amount * basisPoints
    /\ amount * basisPoints < (fee + 1) * 10000

\* a step that releases an escrow is a call of the owner at a block time from
\* the release time on; it sends the floor fee to the treasury and the rest
\* to one recipient, the whole amount in all, out of the contract's balance
ReleasePaysFeeAndRest ==
    \A id \in EscrowIds :
        Releases(id) =>
            LET amount == escrows[id].amount
                fee == PaidTo(NewPayments(id), Treasury)
            IN  /\ IsFloorFee(fee, amount, platformFeeBasisPoints)
                /\ \E recipient \in Recipients \ {ETH_ADDRESS} :
                       /\ PaidTo(NewPayments(id), recipient) = amount - fee
                       /\ releaseEscrow(Owner, id, recipient)
                /\ Total(NewPayments(id)) = amount
                /\ BalanceOf(escrows[id].token)' = BalanceOf(escrows[id].token) - amount
                /\ blockTimestamp >= escrows[id].releaseTime
                /\ \A sender \in Senders \ {Owner} : \A recipient \in Recipients :
                       ~releaseEscrow(sender, id, recipient)

\* before the release time every release of the escrow reverts
ReleaseRevertsEarly ==
    \A id \in EscrowIds :
        blockTimestamp < escrows[id].releaseTime =>
            \A sender \in Senders : \A recipient \in Recipients :
                releaseEscrowReverts(sender, id, recipient) # ""

\* C21: a successful releaseEscrow pays floor(amount * platformFeeBasisPoints
\* / 10000) to the treasury and the rest to the recipient, the two summing to
\* the escrow amount; it succeeds only for the owner at a block time greater
\* than or equal to the release time, and reverts before that.
C21_ReleasePaysFloorFeeAndRest ==
    [](ReleaseRevertsEarly) /\ [][ReleasePaysFeeAndRest]_keloVars

\* an escrow of 150 with release time 1 was released at time 1 at a fee of
\* 500 basis points: 7 went to the treasury, 143 to the recipient
C21_Witness ==
    /\ escrows[0].released /\ escrows[0].amount = 150 /\ escrows[0].releaseTime = 1
    /\ blockTimestamp = 1
    /\ paidOut[0] = << [to |-> Treasury, amount |-> 7], [to |-> "user2", amount |-> 143] >>

\* why pause reverts (lines 288-290); Pausable refuses to pause twice
pauseReverts(sender) ==
    IF sender # Owner THEN "OwnableUnauthorizedAccount"
    ELSE IF paused THEN "EnforcedPause"
    ELSE ""

pause(sender) ==
    /\ IF pauseReverts(sender) # ""
       THEN Revert
       ELSE /\ paused' = TRUE
            /\ UNCHANGED <<platformFeeBasisPoints, depositCounter, escrowCounter,
                           deposits, escrows, supportedTokens, ethBalance,
                           tokenBalance, blockTimestamp, paidOut>>
    /\ UNCHANGED vars
    /\ UNCHANGED <<ingest, verify, roleHook, api, router, withdrawal>>

\* why unpause reverts (lines 295-297)
unpauseReverts(sender) ==
    IF sender # Owner THEN "OwnableUnauthorizedAccount"
    ELSE IF ~paused THEN "ExpectedPause"
    ELSE ""

unpause(sender) ==
    /\ IF unpauseReverts(sender) # ""
       THEN Revert
       ELSE /\ paused' = FALSE
            /\ UNCHANGED <<platformFeeBasisPoints, depositCounter, escrowCounter,
                           deposits, escrows, supportedTokens, ethBalance,
                           tokenBalance, blockTimestamp, paidOut>>
    /\ UNCHANGED vars
    /\ UNCHANGED <<ingest, verify, roleHook, api, router, withdrawal>>

\* why addSupportedToken reverts (lines 250-251)
addSupportedTokenReverts(sender, token) ==
    IF sender # Owner THEN "OwnableUnauthorizedAccount"
    ELSE IF token = ETH_ADDRESS THEN "Invalid token address"
    ELSE ""

addSupportedToken(sender, token) ==
    /\ IF addSupportedTokenReverts(sender, token) # ""
       THEN Revert
       ELSE /\ supportedTokens' = supportedTokens \cup {token}
            /\ UNCHANGED <<platformFeeBasisPoints, paused, depositCounter,
                           escrowCounter, deposits, escrows, ethBalance,
                           tokenBalance, blockTimestamp, paidOut>>
    /\ UNCHANGED vars
    /\ UNCHANGED <<ingest, verify, roleHook, api, router, withdrawal>>

\* why removeSupportedToken reverts (line 259)
removeSupportedTokenReverts(sender) ==
    IF sender # Owner THEN "OwnableUnauthorizedAccount" ELSE ""

removeSupportedToken(sender, token) ==
    /\ IF removeSupportedTokenReverts(sender) # ""
       THEN Revert
       ELSE /\ supportedTokens' = supportedTokens \ {token}
            /\ UNCHANGED <<platformFeeBasisPoints, paused, depositCounter,
                           escrowCounter, deposits, escrows, ethBalance,
                           tokenBalance, blockTimestamp, paidOut>>
    /\ UNCHANGED vars
    /\ UNCHANGED <<ingest, verify, roleHook, api, router, withdrawal>>

\* the deployment of the contract's tests: a fee of 100 basis points
InitAtTestFee == InitKeloPay /\ platformFeeBasisPoints = 100

\* a user's deposits and escrows while the owner pauses and resumes the
\* contract; the user asks for release time 0 or 2 and sends, with an
\* escrow, nothing or the amount
NextPause ==
    \/ \E sender \in Senders : pause(sender)
    \/ \E sender \in Senders : unpause(sender)
    \/ \E sender \in Senders : \E token \in Tokens : addSupportedToken(sender, token)
    \/ \E value \in {0} \cup Amounts : depositETH("user1", value)
    \/ \E token \in Tokens : \E amount \in {0} \cup Amounts : \E approved \in BOOLEAN :
           depositToken("user1", token, amount, approved)
    \/ \E token \in Tokens : \E amount \in {0} \cup Amounts : \E releaseTime \in {0, 2} :
           \E value \in {0, amount} : \E approved \in BOOLEAN :
               createEscrow("user1", token, amount, releaseTime, value, approved)

SpecPause == InitAtTestFee /\ [][NextPause]_keloVars

\* escrow creation by any account with any arguments, as blocks pass and the
\* owner changes the list of supported tokens
NextCreate ==
    \/ \E sender \in Senders : \E token \in Tokens : addSupportedToken(sender, token)
    \/ \E sender \in Senders : \E token \in Tokens : removeSupportedToken(sender, token)
    \/ \E sender \in Senders : \E token \in Tokens : \E amount \in {0} \cup Amounts :
           \E releaseTime \in ReleaseTimes : \E value \in {0} \cup Amounts :
               \E approved \in BOOLEAN :
                   createEscrow(sender, token, amount, releaseTime, value, approved)
    \/ NextBlock

SpecCreate == InitAtTestFee /\ [][NextCreate]_keloVars

\* while the contract is paused every deposit and every escrow creation
\* reverts, whatever its arguments
PausedRefusesAll ==
    paused =>
        /\ \A value \in {0} \cup Amounts : depositETHReverts(value) = "EnforcedPause"
        /\ \A token \in Tokens : \A amount \in {0} \cup Amounts : \A approved \in BOOLEAN :
              /\ depositTokenReverts(token, amount, approved) = "EnforcedPause"
              /\ \A releaseTime \in ReleaseTimes : \A value \in {0} \cup Amounts :
                    createEscrowReverts(token, amount, releaseTime, value, approved)
                        = "EnforcedPause"

\* while it is not paused the calls with proper arguments go through
RunningAccepts ==
    ~paused =>
        \A amount \in Amounts :
            /\ depositETHReverts(amount) = ""
            /\ Usdc \in supportedTokens => depositTokenReverts(Usdc, amount, TRUE) = ""
            /\ createEscrowReverts(ETH_ADDRESS, amount, blockTimestamp + 1, amount, TRUE) = ""
            /\ Usdc \in supportedTokens =>
                  createEscrowReverts(Usdc, amount, blockTimestamp + 1, 0, TRUE) = ""

\* a step taken while paused leaves the counters and the records
PausedKeepsRecords ==
    paused => UNCHANGED <<depositCounter, escrowCounter, deposits, escrows>>

\* C23: while KeloPay is paused every depositETH, depositToken and
\* createEscrow reverts and depositCounter, escrowCounter, deposits and
\* escrows stay as they are; once it is unpaused the calls succeed again.
C23_PauseStopsIntake ==
    [](PausedRefusesAll /\ RunningAccepts) /\ [][PausedKeepsRecords]_keloVars

\* the owner paused the contract after a token deposit and an escrow were
\* recorded, and a further deposit is refused
C23_Witness ==
    /\ paused
    /\ depositCounter = 1 /\ deposits[1].token = Usdc
    /\ escrowCounter = 1
    /\ depositETHReverts(150) = "EnforcedPause"

\* what a call must meet to record an escrow
CreateConditions(token, amount, releaseTime, value) ==
    /\ amount > 0
    /\ releaseTime > blockTimestamp
    /\ token \in supportedTokens
    /\ token = ETH_ADDRESS => value = amount

\* a call that does not meet the conditions reverts
CreateRefusesOthers ==
    \A token \in Tokens : \A amount \in {0} \cup Amounts :
        \A releaseTime \in ReleaseTimes : \A value \in {0} \cup Amounts :
            \A approved \in BOOLEAN :
                ~CreateConditions(token, amount, releaseTime, value)
                    => createEscrowReverts(token, amount, releaseTime, value, approved) # ""

\* a step that changes the counter or the escrows is a call that meets the
\* conditions: it stores the caller's escrow, neither released nor refunded,
\* under the old counter and adds 1 to the counter
CreateStoresUnderCounter ==
    (escrowCounter' # escrowCounter \/ escrows' # escrows) =>
        \E sender \in Senders : \E token \in Tokens : \E amount \in Amounts :
            \E releaseTime \in ReleaseTimes : \E value \in {0} \cup Amounts :
                \E approved \in BOOLEAN :
                    /\ createEscrow(sender, token, amount, releaseTime, value, approved)
                    /\ CreateConditions(token, amount, releaseTime, value)
                    /\ escrowCounter' = escrowCounter + 1
                    /\ escrows' = [escrows EXCEPT ![escrowCounter] =
                           [depositor |-> sender, token |-> token, amount |-> amount,
                            releaseTime |-> releaseTime, released |-> FALSE,
                            refunded |-> FALSE]]

\* C24: createEscrow records an escrow only when amount > 0, releaseTime is
\* after the block time, the token is supported and, for ETH, the value sent
\* equals amount; otherwise it reverts and leaves escrowCounter and escrows.
\* A recorded escrow is stored under the previous escrowCounter with the
\* caller as depositor and released = refunded = false, and escrowCounter
\* grows by 1.
C24_CreateEscrowChecksThenStores ==
    [](CreateRefusesOthers) /\ [][CreateStoresUnderCounter]_keloVars

\* a user's ETH escrow is stored under id 0 and the owner's token escrow
\* under id 1; at block time 1 a release time of 1 is refused
C24_Witness ==
    /\ escrowCounter = 2
    /\ escrows[0] = [depositor |-> "user1", token |-> ETH_ADDRESS, amount |-> 150,
                      releaseTime |-> 1, released |-> FALSE, refunded |-> FALSE]
    /\ escrows[1].depositor = Owner /\ escrows[1].token = Usdc
    /\ blockTimestamp = 1
    /\ Usdc \in supportedTokens
    /\ createEscrowReverts(Usdc, 150, 1, 0, TRUE) = "Release time must be in future"

\* ---- KeloPayRouter (contracts/KeloPayRouter.sol) ----

\* the admin of the router, who also holds OPERATOR_ROLE (lines 104-109)
Admin == "admin"

\* accounts that call the operator functions
RouterCallers == {Admin, "user1"}

\* a merchant
Shop == "shop"

\* amounts of the payments
PaymentAmounts == {150, 300}

\* block.timestamp values while the router runs; 0 marks a payment that
\* does not exist
RouterTimestamps == {1, 2}

\* order ids, the empty one included
OrderIds == {"", "order1"}

\* payments the model lets the router hold
MaxPayments == 2

\* lines 129-131: the id hashes the sender, the recipient, the token, the
\* amount, the block time and the metadata (empty here)
RoutePaymentId(sender, to, token, amount, timestamp) ==
    <<"route", sender, to, token, amount, timestamp>>

\* lines 186-188: the id hashes the order id too
MerchantPaymentId(sender, merchant, token, amount, orderId, timestamp) ==
    <<"merchant", sender, merchant, token, amount, timestamp, orderId>>

\* the ids of the payments the calls of the model can make
PaymentIds ==
    { RoutePaymentId("user1", "user2", token, amount, timestamp) :
          token \in Tokens, amount \in PaymentAmounts, timestamp \in RouterTimestamps }
    \cup
    { MerchantPaymentId("user1", Shop, token, amount, "order1", timestamp) :
          token \in Tokens, amount \in PaymentAmounts, timestamp \in RouterTimestamps }

\* a slot of the payments mapping nothing was written to
NoPayment ==
    [from |-> ETH_ADDRESS, to |-> ETH_ADDRESS, token |-> ETH_ADDRESS, amount |-> 0,
     status |-> "PENDING", timestamp |-> 0]

\* payments[paymentId]
PaymentAt(paymentId) ==
    IF paymentId \in DOMAIN router.payments THEN router.payments[paymentId]
    ELSE NoPayment

\* the value of a per-payment counter, 0 for a payment it does not know
CountAt(counter, paymentId) ==
    IF paymentId \in DOMAIN counter THEN counter[paymentId] ELSE 0

\* the counter after the amount was added for the payment
Counted(counter, paymentId, amount) ==
    [id \in DOMAIN counter \cup {paymentId} |->
        CountAt(counter, id) + (IF id = paymentId THEN amount ELSE 0)]

\* the payments after the record was written under the id
Stored(payments, paymentId, record) ==
    [id \in DOMAIN payments \cup {paymentId} |->
        IF id = paymentId THEN record ELSE payments[id]]

\* the router's balances after the amount of the token came in (negative:
\* went out)
Moved(balance, token, amount) == [balance EXCEPT ![token] = @ + amount]

\* there is room in the model for the payment: it is a new one (the model
\* leaves out a merchant payment that repeats one of the same block)
HasRoom(paymentId) ==
    /\ paymentId \notin DOMAIN router.payments
    /\ Cardinality(DOMAIN router.payments) < MaxPayments

\* constructor, lines 104-109
InitRouter ==
    /\ router = [payments |-> << >>,
                 balance |-> [token \in Tokens |-> 0],
                 registeredMerchants |-> {},
                 paused |-> FALSE,
                 timestamp |-> 1,
                 paidIn |-> << >>,
                 sentOut |-> << >>]
    /\ secret = NoKey
    /\ PipelineIdle
    /\ ingest = Resting /\ verify = Resting /\ roleHook = Resting /\ api = Resting
    /\ KeloPayIdle
    /\ withdrawal = Resting

\* what a router action leaves alone
RouterFrame ==
    /\ UNCHANGED vars
    /\ UNCHANGED <<ingest, verify, roleHook, api, keloVars, withdrawal>>

\* why routePayment reverts (lines 125-140)
routePaymentReverts(sender, to, token, amount, value, approved) ==
    IF router.paused THEN "EnforcedPause"
    ELSE IF to = ETH_ADDRESS THEN "Invalid recipient"
    ELSE IF amount = 0 THEN "Amount must be greater than 0"
    ELSE IF PaymentAt(RoutePaymentId(sender, to, token, amount, router.timestamp)).timestamp # 0
         THEN "Payment already exists"
    ELSE IF token = ETH_ADDRESS /\ value # amount THEN "ETH amount mismatch"
    ELSE IF token # ETH_ADDRESS /\ ~approved THEN "ERC20InsufficientAllowance"
    ELSE ""

routePayment(sender, to, token, amount, value, approved) ==
    /\ IF routePaymentReverts(sender, to, token, amount, value, approved) # ""
       THEN UNCHANGED router
       ELSE LET paymentId == RoutePaymentId(sender, to, token, amount, router.timestamp)
            IN  /\ HasRoom(paymentId)
                /\ router' = [router EXCEPT
                       !.payments = Stored(@, paymentId,
                           [from |-> sender, to |-> to, token |-> token,
                            amount |-> amount, status |-> "PROCESSING",
                            timestamp |-> router.timestamp]),
                       !.balance = IF token = ETH_ADDRESS
                                   THEN Moved(@, ETH_ADDRESS, value)
                                   ELSE Moved(Moved(@, ETH_ADDRESS, value), token, amount),
                       !.paidIn = Counted(@, paymentId, amount),
                       !.sentOut = Counted(@, paymentId, 0)]
    /\ RouterFrame

\* why processMerchantPayment reverts (lines 180-196)
processMerchantPaymentReverts(merchant, token, amount, orderId, value, approved) ==
    IF router.paused THEN "EnforcedPause"
    ELSE IF merchant = ETH_ADDRESS THEN "Invalid merchant"
    ELSE IF merchant \notin router.registeredMerchants THEN "Merchant not registered"
    ELSE IF amount = 0 THEN "Amount must be greater than 0"
    ELSE IF orderId = "" THEN "Order ID required"
    ELSE IF token = ETH_ADDRESS /\ value # amount THEN "ETH amount mismatch"
    ELSE IF token # ETH_ADDRESS /\ ~approved THEN "ERC20InsufficientAllowance"
    ELSE ""

\* the ETH sent goes on to the merchant; a token amount goes from the sender
\* to the merchant without passing the router
processMerchantPayment(sender, merchant, token, amount, orderId, value, approved) ==
    /\ IF processMerchantPaymentReverts(merchant, token, amount, orderId, value, approved) # ""
       THEN UNCHANGED router
       ELSE LET paymentId == MerchantPaymentId(sender, merchant, token, amount, orderId,
                                               router.timestamp)
            IN  /\ HasRoom(paymentId)
                /\ router' = [router EXCEPT
                       !.payments = Stored(@, paymentId,
                           [from |-> sender, to |-> merchant, token |-> token,
                            amount |-> amount, status |-> "COMPLETED",
                            timestamp |-> router.timestamp]),
                       !.balance = IF token = ETH_ADDRESS THEN @
                                   ELSE Moved(@, ETH_ADDRESS, value),
                       !.paidIn = Counted(@, paymentId, amount),
                       !.sentOut = Counted(@, paymentId, amount)]
    /\ RouterFrame

\* why completePayment reverts (lines 228-241)
completePaymentReverts(sender, paymentId) ==
    IF sender # Admin THEN "AccessControlUnauthorizedAccount"
    ELSE IF PaymentAt(paymentId).timestamp = 0 THEN "Payment not found"
    ELSE IF PaymentAt(paymentId).status # "PROCESSING" THEN "Invalid status"
    ELSE IF router.balance[PaymentAt(paymentId).token] < PaymentAt(paymentId).amount
         THEN "insufficient balance"
    ELSE ""

completePayment(sender, paymentId) ==
    /\ IF completePaymentReverts(sender, paymentId) # ""
       THEN UNCHANGED router
       ELSE router' = [router EXCEPT
                !.payments[paymentId].status = "COMPLETED",
                !.balance = Moved(@, PaymentAt(paymentId).token,
                                  0 - PaymentAt(paymentId).amount),
                !.sentOut = Counted(@, paymentId, PaymentAt(paymentId).amount)]
    /\ RouterFrame

\* why failPayment reverts (lines 248-252)
failPaymentReverts(sender, paymentId) ==
    IF sender # Admin THEN "AccessControlUnauthorizedAccount"
    ELSE IF PaymentAt(paymentId).timestamp = 0 THEN "Payment not found"
    ELSE IF PaymentAt(paymentId).status # "PROCESSING" THEN "Invalid status"
    ELSE ""

failPayment(sender, paymentId) ==
    /\ IF failPaymentReverts(sender, paymentId) # ""
       THEN UNCHANGED router
       ELSE router' = [router EXCEPT !.payments[paymentId].status = "FAILED"]
    /\ RouterFrame

\* why refundPayment reverts (lines 262-282)
refundPaymentReverts(sender, paymentId) ==
    IF sender # Admin THEN "AccessControlUnauthorizedAccount"
    ELSE IF PaymentAt(paymentId).timestamp = 0 THEN "Payment not found"
    ELSE IF PaymentAt(paymentId).status \notin {"PROCESSING", "COMPLETED"}
         THEN "Cannot refund"
    ELSE IF router.balance[PaymentAt(paymentId).token] < PaymentAt(paymentId).amount
         THEN "insufficient balance"
    ELSE ""

refundPayment(sender, paymentId) ==
    /\ IF refundPaymentReverts(sender, paymentId) # ""
       THEN UNCHANGED router
       ELSE router' = [router EXCEPT
                !.payments[paymentId].status = "REFUNDED",
                !.balance = Moved(@, PaymentAt(paymentId).token,
                                  0 - PaymentAt(paymentId).amount),
                !.sentOut = Counted(@, paymentId, PaymentAt(paymentId).amount)]
    /\ RouterFrame

\* why registerMerchant reverts (lines 295-298); the name is not empty
registerMerchantReverts(sender, merchant) ==
    IF sender # Admin THEN "AccessControlUnauthorizedAccount"
    ELSE IF merchant = ETH_ADDRESS THEN "Invalid merchant address"
    ELSE IF merchant \in router.registeredMerchants THEN "Merchant already registered"
    ELSE ""

registerMerchant(sender, merchant) ==
    /\ IF registerMerchantReverts(sender, merchant) # ""
       THEN UNCHANGED router
       ELSE router' = [router EXCEPT !.registeredMerchants = @ \cup {merchant}]
    /\ RouterFrame

\* a block is mined
RouterNextBlock ==
    /\ router.timestamp + 1 \in RouterTimestamps
    /\ router' = [router EXCEPT !.timestamp = @ + 1]
    /\ RouterFrame

NextRouter ==
    \/ \E to \in {"user2", ETH_ADDRESS} : \E token \in Tokens :
           \E amount \in {0} \cup PaymentAmounts : \E value \in {0} \cup PaymentAmounts :
               \E approved \in BOOLEAN :
                   routePayment("user1", to, token, amount, value, approved)
    \/ \E merchant \in {Shop, ETH_ADDRESS} : \E token \in Tokens :
           \E amount \in {0} \cup PaymentAmounts : \E orderId \in OrderIds :
               \E value \in {0} \cup PaymentAmounts : \E approved \in BOOLEAN :
                   processMerchantPayment("user1", merchant, token, amount, orderId,
                                          value, approved)
    \/ \E sender \in RouterCallers : \E paymentId \in PaymentIds :
           completePayment(sender, paymentId)
    \/ \E sender \in RouterCallers : \E paymentId \in PaymentIds :
           failPayment(sender, paymentId)
    \/ \E sender \in RouterCallers : \E paymentId \in PaymentIds :
           refundPayment(sender, paymentId)
    \/ \E sender \in RouterCallers : \E merchant \in {Shop, ETH_ADDRESS} :
           registerMerchant(sender, merchant)
    \/ RouterNextBlock

SpecRouter == InitRouter /\ [][NextRouter]_router

\* C25: for every payment id the total the router has sent out for it, to
\* the recipient, the merchant and the sender, never exceeds what the
\* sender paid in for it.
C25_RouterNeverOverpays ==
    \A paymentId \in DOMAIN router.payments :
        router.sentOut[paymentId] <= router.paidIn[paymentId]

\* ---- KeloPayWithdrawal (contracts/KeloPayWithdrawal.sol) ----

\* the admin holds OPERATOR_ROLE and TREASURY_ROLE as well (lines 104-106)
WithdrawalAdmin == "admin"

\* accounts that ask for withdrawals
WithdrawalUsers == {"user1", "user2"}

\* accounts that call the role functions
WithdrawalCallers == {WithdrawalAdmin, "user1"}

\* minWithdrawalAmounts[ETH_ADDRESS], 0.001 ether, in the model's unit
MinWithdrawalETH == 100

\* amounts asked for: none, one below the minimum, two above
WithdrawalAmounts == {0, 50, 150, 300}

\* the ids requestWithdrawal fills, and one id beyond them
WithdrawalSlots == {0, 1}

WithdrawalIds == WithdrawalSlots \cup {2}

\* the ETH the treasury puts in at once, and the most the model lets the
\* contract hold
Funding == 300

MaxFunds == 600

\* a slot of the withdrawals mapping nothing was written to: the zero
\* status is PENDING (lines 62-68)
NoWithdrawal ==
    [user |-> ETH_ADDRESS, token |-> ETH_ADDRESS, amount |-> 0, status |-> "PENDING",
     approver |-> ETH_ADDRESS, txHash |-> 0, rejectionReason |-> ""]

\* constructor, lines 101-111
InitWithdrawal ==
    /\ withdrawal = [withdrawalCounter |-> 0,
                     withdrawals |-> [id \in WithdrawalIds |-> NoWithdrawal],
                     supportedTokens |-> {ETH_ADDRESS},
                     paused |-> FALSE,
                     balance |-> 0,
                     sent |-> [id \in WithdrawalIds |-> << >>]]
    /\ secret = NoKey
    /\ PipelineIdle
    /\ ingest = Resting /\ verify = Resting /\ roleHook = Resting /\ api = Resting
    /\ KeloPayIdle
    /\ router = Resting

\* what a withdrawal action leaves alone
WithdrawalFrame ==
    /\ UNCHANGED vars
    /\ UNCHANGED <<ingest, verify, roleHook, api, keloVars, router>>

\* why requestWithdrawal reverts (lines 125-130)
requestWithdrawalReverts(token, amount, fiatCurrency, fiatAmount) ==
    IF withdrawal.paused THEN "EnforcedPause"
    ELSE IF amount = 0 THEN "Amount must be greater than 0"
    ELSE IF token \notin withdrawal.supportedTokens THEN "Token not supported"
    ELSE IF amount < MinWithdrawalETH THEN "Amount below minimum"
    ELSE IF fiatCurrency = "" THEN "Invalid fiat currency"
    ELSE IF fiatAmount = 0 THEN "Fiat amount must be greater than 0"
    ELSE ""

requestWithdrawal(sender, token, amount, fiatCurrency, fiatAmount) ==
    /\ IF requestWithdrawalReverts(token, amount, fiatCurrency, fiatAmount) # ""
       THEN UNCHANGED withdrawal
       ELSE /\ withdrawal.withdrawalCounter \in WithdrawalSlots
            /\ withdrawal' = [withdrawal EXCEPT
                   !.withdrawalCounter = @ + 1,
                   !.withdrawals[withdrawal.withdrawalCounter] =
                       [user |-> sender, token |-> token, amount |-> amount,
                        status |-> "PENDING", approver |-> ETH_ADDRESS, txHash |-> 0,
                        rejectionReason |-> ""]]
    /\ WithdrawalFrame

\* why approveWithdrawal reverts (lines 168-171)
approveWithdrawalReverts(sender, withdrawalId) ==
    IF sender # WithdrawalAdmin THEN "AccessControlUnauthorizedAccount"
    ELSE IF withdrawal.withdrawals[withdrawalId].status # "PENDING" THEN "Invalid status"
    ELSE ""

approveWithdrawal(sender, withdrawalId) ==
    /\ IF approveWithdrawalReverts(sender, withdrawalId) # ""
       THEN UNCHANGED withdrawal
       ELSE withdrawal' = [withdrawal EXCEPT
                !.withdrawals[withdrawalId].status = "APPROVED",
                !.withdrawals[withdrawalId].approver = sender]
    /\ WithdrawalFrame

\* why completeWithdrawal reverts (lines 188-200)
completeWithdrawalReverts(sender, withdrawalId, txHash) ==
    IF sender # WithdrawalAdmin THEN "AccessControlUnauthorizedAccount"
    ELSE IF withdrawal.withdrawals[withdrawalId].status # "APPROVED"
         THEN "Withdrawal not approved"
    ELSE IF txHash = 0 THEN "Invalid transaction hash"
    ELSE IF withdrawal.balance < withdrawal.withdrawals[withdrawalId].amount
         THEN "Insufficient ETH balance"
    ELSE ""

completeWithdrawal(sender, withdrawalId, txHash) ==
    /\ IF completeWithdrawalReverts(sender, withdrawalId, txHash) # ""
       THEN UNCHANGED withdrawal
       ELSE withdrawal' = [withdrawal EXCEPT
                !.withdrawals[withdrawalId].status = "COMPLETED",
                !.withdrawals[withdrawalId].txHash = txHash,
                !.balance = @ - withdrawal.withdrawals[withdrawalId].amount,
                !.sent[withdrawalId] =
                    @ \o Payment(withdrawal.withdrawals[withdrawalId].user,
                                 withdrawal.withdrawals[withdrawalId].amount)]
    /\ WithdrawalFrame

\* why rejectWithdrawal reverts (lines 229-237)
rejectWithdrawalReverts(sender, withdrawalId, reason) ==
    IF sender # WithdrawalAdmin THEN "AccessControlUnauthorizedAccount"
    ELSE IF withdrawal.withdrawals[withdrawalId].status \notin {"PENDING", "APPROVED"}
         THEN "Invalid status"
    ELSE IF reason = "" THEN "Reason required"
    ELSE ""

rejectWithdrawal(sender, withdrawalId, reason) ==
    /\ IF rejectWithdrawalReverts(sender, withdrawalId, reason) # ""
       THEN UNCHANGED withdrawal
       ELSE withdrawal' = [withdrawal EXCEPT
                !.withdrawals[withdrawalId].status = "REJECTED",
                !.withdrawals[withdrawalId].rejectionReason = reason]
    /\ WithdrawalFrame

\* why cancelWithdrawal reverts (lines 249-253)
cancelWithdrawalReverts(sender, withdrawalId) ==
    IF withdrawal.withdrawals[withdrawalId].user # sender THEN "Not authorized"
    ELSE IF withdrawal.withdrawals[withdrawalId].status # "PENDING" THEN "Cannot cancel"
    ELSE ""

cancelWithdrawal(sender, withdrawalId) ==
    /\ IF cancelWithdrawalReverts(sender, withdrawalId) # ""
       THEN UNCHANGED withdrawal
       ELSE withdrawal' = [withdrawal EXCEPT
                !.withdrawals[withdrawalId].status = "CANCELLED"]
    /\ WithdrawalFrame

\* why the contract's depositETH reverts (lines 298-299)
fundReverts(sender, value) ==
    IF sender # WithdrawalAdmin THEN "AccessControlUnauthorizedAccount"
    ELSE IF value = 0 THEN "Amount must be greater than 0"
    ELSE ""

\* depositETH of KeloPayWithdrawal: the treasury funds the withdrawals
fund(sender, value) ==
    /\ IF fundReverts(sender, value) # ""
       THEN UNCHANGED withdrawal
       ELSE /\ withdrawal.balance + value <= MaxFunds
            /\ withdrawal' = [withdrawal EXCEPT !.balance = @ + value]
    /\ WithdrawalFrame

NextWithdrawal ==
    \/ \E sender \in WithdrawalUsers : \E token \in Tokens :
           \E amount \in WithdrawalAmounts : \E fiatCurrency \in {"", "NGN"} :
               \E fiatAmount \in {0, 1} :
                   requestWithdrawal(sender, token, amount, fiatCurrency, fiatAmount)
    \/ \E sender \in WithdrawalCallers : \E withdrawalId \in WithdrawalIds :
           approveWithdrawal(sender, withdrawalId)
    \/ \E sender \in WithdrawalCallers : \E withdrawalId \in WithdrawalIds :
           \E txHash \in {0, 1} : completeWithdrawal(sender, withdrawalId, txHash)
    \/ \E sender \in WithdrawalCallers : \E withdrawalId \in WithdrawalIds :
           \E reason \in {"", "kyc"} : rejectWithdrawal(sender, withdrawalId, reason)
    \/ \E sender \in WithdrawalUsers : \E withdrawalId \in WithdrawalIds :
           cancelWithdrawal(sender, withdrawalId)
    \/ \E sender \in WithdrawalCallers : \E value \in {0, Funding} : fund(sender, value)

SpecWithdrawal == InitWithdrawal /\ [][NextWithdrawal]_withdrawal

\* requestWithdrawal has stored the withdrawal
Requested(id) == id < withdrawal.withdrawalCounter

\* the statuses that end a withdrawal
TerminalStatuses == {"COMPLETED", "REJECTED", "CANCELLED"}

\* the withdrawal has sent its amount to its user if it is completed and
\* nothing otherwise, and only its user can cancel it, while it is pending
SentWhenCompleted(id) ==
    LET w == withdrawal.withdrawals[id]
    IN  /\ withdrawal.sent[id] =
               IF w.status = "COMPLETED" THEN Payment(w.user, w.amount) ELSE << >>
        /\ \A sender \in WithdrawalUsers \cup WithdrawalCallers :
              cancelWithdrawalReverts(sender, id) = ""
                  => (sender = w.user /\ w.status = "PENDING")

\* what a step may do to the withdrawal: nothing once its status is
\* terminal; send its amount only as completeWithdrawal on an approved one;
\* approve it only as approveWithdrawal on a pending one; cancel it only as
\* cancelWithdrawal of its user on a pending one
WithdrawalSteps(id) ==
    LET w == withdrawal.withdrawals[id]
        after == withdrawal.withdrawals'[id]
    IN  /\ w.status \in TerminalStatuses =>
              (after = w /\ withdrawal.sent'[id] = withdrawal.sent[id])
        /\ withdrawal.sent'[id] # withdrawal.sent[id] =>
              /\ w.status = "APPROVED" /\ after.status = "COMPLETED"
              /\ w.approver = WithdrawalAdmin
              /\ \E txHash \in {0, 1} : completeWithdrawal(WithdrawalAdmin, id, txHash)
        /\ (w.status # "APPROVED" /\ after.status = "APPROVED") =>
              (w.status = "PENDING" /\ approveWithdrawal(WithdrawalAdmin, id))
        /\ (w.status # "CANCELLED" /\ after.status = "CANCELLED") =>
              (w.status = "PENDING" /\ cancelWithdrawal(w.user, id))

\* C26: a withdrawal's amount is sent to its user at most once, and only by
\* completeWithdrawal on a withdrawal approveWithdrawal has approved; the
\* statuses COMPLETED, REJECTED and CANCELLED are terminal, no operation
\* changes the status afterwards; cancelWithdrawal succeeds only for the
\* requesting user while the status is PENDING.
C26_WithdrawalPaidOnceWhenApproved ==
    [](\A id \in WithdrawalIds : SentWhenCompleted(id))
    /\ [][\A id \in WithdrawalIds : WithdrawalSteps(id)]_withdrawal

\* the same of the withdrawals requestWithdrawal has stored: it holds
RequestedWithdrawalPaidOnce ==
    [](\A id \in WithdrawalIds : Requested(id) => SentWhenCompleted(id))
    /\ [][\A id \in WithdrawalIds : Requested(id) => WithdrawalSteps(id)]_withdrawal

\* user1's withdrawal of 150 was approved and completed, and 150 went to
\* user1; user2 cancelled the other one; neither can be approved, completed,
\* rejected or cancelled again
TwoWithdrawalsEnded ==
    /\ withdrawal.withdrawalCounter = 2
    /\ withdrawal.withdrawals[0].status = "COMPLETED"
    /\ withdrawal.sent[0] = << [to |-> "user1", amount |-> 150] >>
    /\ withdrawal.withdrawals[1].status = "CANCELLED"
    /\ withdrawal.withdrawals[1].user = "user2"
    /\ \A id \in WithdrawalSlots :
          /\ approveWithdrawalReverts(WithdrawalAdmin, id) = "Invalid status"
          /\ completeWithdrawalReverts(WithdrawalAdmin, id, 1) = "Withdrawal not approved"
          /\ rejectWithdrawalReverts(WithdrawalAdmin, id, "kyc") = "Invalid status"
          /\ cancelWithdrawalReverts(withdrawal.withdrawals[id].user, id) = "Cannot cancel"

\* a user's ETH deposits and ETH escrows, released and refunded by any
\* caller at a fee the owner changes
NextBalance ==
    \/ \E value \in {0} \cup Amounts : depositETH("user1", value)
    \/ \E amount \in {0} \cup Amounts : \E releaseTime \in ReleaseTimes :
           \E value \in {0} \cup Amounts :
               createEscrow("user1", ETH_ADDRESS, amount, releaseTime, value, TRUE)
    \/ \E sender \in Senders : \E escrowId \in EscrowIds :
           releaseEscrow(sender, escrowId, "user2")
    \/ \E sender \in Senders : \E escrowId \in EscrowIds : refundEscrow(sender, escrowId)
    \/ \E sender \in Senders : \E fee \in FeeValues : updatePlatformFee(sender, fee)
    \/ NextBlock

SpecBalance == InitAtTestFee /\ [][NextBalance]_keloVars

\* the fees above the maximum
TooHigh == { f \in FeeValues : f > MAX_FEE_BASIS_POINTS }

\* the fee is within the maximum, and the constructor and the owner's update
\* refuse every fee above it
FeeWithinMax ==
    /\ platformFeeBasisPoints <= MAX_FEE_BASIS_POINTS
    /\ \A f \in TooHigh :
          /\ constructorReverts(Treasury, f) = "Fee too high"
          /\ updatePlatformFeeReverts(Owner, f) = "Fee too high"

\* an update that reverts, for its fee or for its caller, leaves the fee
RevertedUpdateKeepsFee ==
    \A sender \in Senders : \A f \in FeeValues :
        (updatePlatformFeeReverts(sender, f) # "" /\ updatePlatformFee(sender, f))
            => platformFeeBasisPoints' = platformFeeBasisPoints

\* C22: platformFeeBasisPoints is at most 500 in every reachable state; the
\* constructor and updatePlatformFee revert with "Fee too high" for a larger
\* value, and a reverted updatePlatformFee leaves the fee unchanged.
C22_FeeNeverAboveMax ==
    [](FeeWithinMax) /\ [][RevertedUpdateKeepsFee]_keloVars

\* the fee was 100 basis points when escrow 0 was released (1 of 150 went to
\* the treasury) and the owner has raised it to the maximum since; 501 is
\* refused
C22_Witness ==
    /\ platformFeeBasisPoints = MAX_FEE_BASIS_POINTS
    /\ escrows[0].released /\ escrows[0].amount = 150
    /\ PaidTo(paidOut[0], Treasury) = 1
    /\ updatePlatformFeeReverts(Owner, MAX_FEE_BASIS_POINTS + 1) = "Fee too high"

\* what the escrow still holds in ETH
OpenETH(id) ==
    IF escrows[id].token = ETH_ADDRESS /\ ~escrows[id].released /\ ~escrows[id].refunded
    THEN escrows[id].amount
    ELSE 0

\* the sum of what the escrows of the set hold in ETH
RECURSIVE SumOpenETH(_)
SumOpenETH(ids) ==
    IF ids = {} THEN 0
    ELSE LET id == CHOOSE i \in ids : TRUE
         IN  OpenETH(id) + SumOpenETH(ids \ {id})

\* C27: in every reachable state the contract's ETH balance is at least the
\* sum of the amounts of the ETH escrows that are neither released nor
\* refunded.
C27_BalanceCoversOpenEscrows == ethBalance >= SumOpenETH(EscrowIds)

\* escrow 0 was released, escrow 1 still holds 300, and the balance is the
\* 300 and a deposit
C27_Witness ==
    /\ escrowCounter = 2 /\ depositCounter = 1
    /\ escrows[0].released /\ Total(paidOut[0]) = escrows[0].amount
    /\ OpenETH(1) = 300
    /\ ethBalance = 300 + deposits[1].amount

\* on an id createEscrow has not reached, a step sets no flag and every
\* release and refund leaves the contract as it was
NoEffectBeyondCounter(id) ==
    /\ ~escrows'[id].released
    /\ ~escrows'[id].refunded
    /\ \A sender \in Senders :
          /\ refundEscrow(sender, id) => UNCHANGED keloVars
          /\ \A recipient \in Recipients :
                releaseEscrow(sender, id, recipient) => UNCHANGED keloVars

\* C28: releaseEscrow and refundEscrow take effect only on escrows
\* createEscrow has created: for every escrow id greater than or equal to
\* escrowCounter both calls revert and no released or refunded flag is set.
C28_SettlesOnlyCreatedEscrows ==
    [][\A id \in EscrowIds : id >= escrowCounter => NoEffectBeyondCounter(id)]_keloVars

====
